---- MODULE Spec2Model ----
(***************************************************************************)
(* Model of the v1 profile aggregation engine:                             *)
(*   profiling/src/profile/mod.rs   (Profile, ProfileBuilder, Endpoints,   *)
(*                                   impl From<&Profile> for pprof)        *)
(*   ddcommon/src/profiled_endpoints.rs (ProfiledEndpointsStats)           *)
(*   ddprof-ffi/src/profiles.rs    (the C interface to the profile)        *)
(* and of trace-utils/src/tracer_payload.rs (TracerPayloadCollection),     *)
(* and of                                                                  *)
(*   profiling/src/profile/v2       (ProfileStorage, ProfileSet,           *)
(*                                   StringTable, ProfileBuilder)          *)
(*   ddcommon-ffi/src/vec.rs        (Vec)                                  *)
(*   trace-mini-agent/src/trace_flusher.rs (ServerlessTraceFlusher)        *)
(*   sidecar/src/unix.rs            (the sidecar main loop)                *)
(*   ipc/src/transport/blocking.rs  (BlockingTransport).                   *)
(*                                                                         *)
(* IndexSet<T> is a duplicate-free sequence, IndexMap<K,V> a sequence of   *)
(* [key, value] entries with distinct keys; Rust indices are 0-based, so   *)
(* element i of the Rust container is element i+1 of the sequence.         *)
(* Option<T> is <<>> (None) or <<x>> (Some(x)).  Times are integers:       *)
(* nanoseconds relative to the Unix epoch (negative = before the epoch).   *)
(***************************************************************************)
EXTENDS Integers, Sequences, FiniteSets, TLC

VARIABLES
    host,       \* the workload of the host: the inputs it passes to the profile
    profile,    \* the live Profile object
    call,       \* the most recent API call with its arguments
    result,     \* what that call returned
    history,    \* the add, add_endpoint and reset calls made so far, with results
    twin,       \* TwinSpec: a second profile driven through the same calls
    collection, \* PayloadSpec: a TracerPayloadCollection
    storage,    \* StorageSpec: a v2 ProfileStorage and a ProfileSet
    profile_builder, \* BuilderSpec: a v2 ProfileBuilder
    interning,  \* InternSpec: a shared LockedStringTable and its threads
    vec,        \* VecSpec: a ddcommon-ffi Vec
    flusher,    \* FlusherSpec: the trace flusher's buffer, channel and tasks
    sidecar,    \* SidecarSpec: the sidecar main loop and its connections
    transport   \* TransportSpec: BlockingTransport clones and the peer

\* the variables of the specifications other than the profile's
crateVars == <<storage, profile_builder, interning, vec, flusher, sidecar, transport>>

\* the variables of the profile and payload specifications
profileVars == <<host, profile, history, twin, collection>>

vars == <<host, profile, call, result, history, twin, collection, crateVars>>

-----------------------------------------------------------------------------
(* Bounds and program constants *)

\* number of add, add_endpoint and reset calls in a run
MaxCalls == 3

\* stands for u32::MAX - 1, scaled so that the ceiling is within reach
MaxTable == 10

\* stands for i64::MAX, scaled so that the clamps are within reach
MaxI64 == 9

CONTAINER_MAX == MaxTable

I64_MAX == MaxI64

-----------------------------------------------------------------------------
(* Option<T> *)

None == <<>>

Some(x) == <<x>>

unwrap_or(opt, default) == IF opt = None THEN default ELSE opt[1]

Min(a, b) == IF a <= b THEN a ELSE b

-----------------------------------------------------------------------------
(* let bindings *)

\* let x = e; body: e is evaluated once and body reads it as x
Bind(e, body(_)) == body(e)

-----------------------------------------------------------------------------
(* indexmap::IndexSet / IndexMap *)

\* IndexSet::get_index_of: 0-based index of the item, -1 for None
get_index_of(set, item) ==
    IF \E i \in 1..Len(set) : set[i] = item
    THEN (CHOOSE i \in 1..Len(set) : set[i] = item) - 1
    ELSE -1

\* IndexSet::insert_full: (index, inserted); appends only if absent
insert_full(set, item) ==
    Bind(get_index_of(set, item), LAMBDA index :
        IF index >= 0
        THEN [set |-> set, index |-> index, inserted |-> FALSE]
        ELSE [set |-> Append(set, item), index |-> Len(set), inserted |-> TRUE])

\* DedupExt::dedup
dedup(set, item) ==
    Bind(insert_full(set, item), LAMBDA r :
        [set |-> r.set, index |-> r.index])

\* dedup_ref without the lookup: every item is appended
dedup_ref_no_lookup(set, item) ==
    [set |-> Append(set, item), index |-> Len(set)]

\* DedupExt::dedup_ref
dedup_ref(set, item) ==
    Bind(get_index_of(set, item), LAMBDA found :
        IF found >= 0
        THEN [set |-> set, index |-> found]
        ELSE Bind(insert_full(set, item), LAMBDA r :
                 [set |-> r.set, index |-> r.index]))

\* IndexMap::get_index_of on the keys of the entries
map_get_index_of(map, key) ==
    IF \E i \in 1..Len(map) : map[i].key = key
    THEN (CHOOSE i \in 1..Len(map) : map[i].key = key) - 1
    ELSE -1

\* IndexMap::insert that leaves the value of an existing key as it is
map_insert_keep_first(map, key, value) ==
    Bind(map_get_index_of(map, key), LAMBDA index :
        IF index >= 0
        THEN map
        ELSE Append(map, [key |-> key, value |-> value]))

\* IndexMap::insert: replaces the value of an existing key in place,
\* otherwise appends the entry
map_insert(map, key, value) ==
    Bind(map_get_index_of(map, key), LAMBDA index :
        IF index >= 0
        THEN [map EXCEPT ![index + 1].value = value]
        ELSE Append(map, [key |-> key, value |-> value]))

\* IndexMap::get
map_get(map, key) ==
    Bind(map_get_index_of(map, key), LAMBDA index :
        IF index >= 0 THEN Some(map[index + 1].value) ELSE None)

-----------------------------------------------------------------------------
(* ProfiledEndpointsStats *)

\* add_endpoint that counts an endpoint once, when it is first seen
ProfiledEndpointsStats_add_endpoint_once(count, endpoint_name) ==
    Bind(map_get_index_of(count, endpoint_name), LAMBDA index :
        IF index < 0
        THEN map_insert(count, endpoint_name, 1)
        ELSE count)

\* ProfiledEndpointsStats::add_endpoint
ProfiledEndpointsStats_add_endpoint(count, endpoint_name) ==
    Bind(map_get_index_of(count, endpoint_name), LAMBDA index :
        IF index < 0
        THEN map_insert(count, endpoint_name, 1)
        ELSE [count EXCEPT ![index + 1].value = @ + 1])

-----------------------------------------------------------------------------
(* Profile *)

Endpoints_new ==
    [mappings |-> <<>>,
     local_root_span_id_label |-> 0,
     endpoint_label |-> 0,
     stats |-> <<>>]

\* Profile::intern
intern(p, str) ==
    Bind(dedup_ref(p.strings, str), LAMBDA r :
        [profile |-> [p EXCEPT !.strings = r.set], id |-> r.index])

\* Profile::new without the intern("") at its end
Profile_new_no_empty_string(start_time) ==
    [sample_types |-> <<>>,
     samples      |-> <<>>,
     mappings     |-> <<>>,
     locations    |-> <<>>,
     functions    |-> <<>>,
     strings      |-> <<>>,
     start_time   |-> start_time,
     period       |-> None,
     endpoints    |-> Endpoints_new]

\* Profile::new that also interns the start time, as text
Profile_new_stamped(start_time) ==
    intern(intern([sample_types |-> <<>>,
                   samples      |-> <<>>,
                   mappings     |-> <<>>,
                   locations    |-> <<>>,
                   functions    |-> <<>>,
                   strings      |-> <<>>,
                   start_time   |-> start_time,
                   period       |-> None,
                   endpoints    |-> Endpoints_new], "").profile,
           ToString(start_time)).profile

\* Profile::new
Profile_new(start_time) ==
    intern([sample_types |-> <<>>,
            samples      |-> <<>>,
            mappings     |-> <<>>,
            locations    |-> <<>>,
            functions    |-> <<>>,
            strings      |-> <<>>,
            start_time   |-> start_time,
            period       |-> None,
            endpoints    |-> Endpoints_new], "").profile

\* get_string that counts the ids from 1
get_string_one_based(p, id) ==
    IF id >= 1 /\ id <= Len(p.strings) THEN Some(p.strings[id]) ELSE None

\* Profile::get_string
get_string(p, id) ==
    IF id >= 0 /\ id < Len(p.strings) THEN Some(p.strings[id + 1]) ELSE None

\* the closure of ProfileBuilder::build that interns one api::ValueType
intern_value_type(p, vt) ==
    Bind(intern(p, vt.type), LAMBDA t :
    Bind(intern(t.profile, vt.unit), LAMBDA u :
        [profile |-> u.profile, vt |-> [type |-> t.id, unit |-> u.id]]))

RECURSIVE intern_sample_types(_, _, _, _)
intern_sample_types(p, vts, i, acc) ==
    IF i > Len(vts)
    THEN [profile |-> p, sample_types |-> acc]
    ELSE Bind(intern_value_type(p, vts[i]), LAMBDA r :
             intern_sample_types(r.profile, vts, i + 1, Append(acc, r.vt)))

\* ProfileBuilder::build; now is the reading of SystemTime::now
build(builder, now) ==
    Bind(Profile_new(unwrap_or(builder.start_time, now)), LAMBDA p0 :
    Bind(intern_sample_types(p0, builder.sample_types, 1, <<>>), LAMBDA st :
    Bind([st.profile EXCEPT !.sample_types = st.sample_types], LAMBDA p1 :
        IF builder.period = None
        THEN p1
        ELSE Bind(intern_value_type(p1, builder.period[1].type), LAMBDA r :
                 [r.profile EXCEPT !.period =
                     Some([value |-> builder.period[1].value, type |-> r.vt])]))))

\* Profile::add_mapping
add_mapping(p, mapping) ==
    IF Len(p.strings) >= CONTAINER_MAX \/ Len(p.mappings) >= CONTAINER_MAX
    THEN [profile |-> p, ok |-> FALSE, id |-> 0]
    ELSE Bind(intern(p, mapping.filename), LAMBDA filename :
         Bind(intern(filename.profile, mapping.build_id), LAMBDA build_id :
         Bind(dedup(build_id.profile.mappings,
                    [memory_start |-> mapping.memory_start,
                     memory_limit |-> mapping.memory_limit,
                     file_offset  |-> mapping.file_offset,
                     filename     |-> filename.id,
                     build_id     |-> build_id.id]), LAMBDA r :
             [profile |-> [build_id.profile EXCEPT !.mappings = r.set],
              ok |-> TRUE,
              id |-> r.index + 1])))

\* Profile::add_function
add_function(p, function) ==
    Bind(intern(p, function.name), LAMBDA name :
    Bind(intern(name.profile, function.system_name), LAMBDA system_name :
    Bind(intern(system_name.profile, function.filename), LAMBDA filename :
    Bind(dedup(filename.profile.functions,
               [id          |-> 0,
                name        |-> name.id,
                system_name |-> system_name.id,
                filename    |-> filename.id,
                start_line  |-> function.start_line]), LAMBDA r :
        [profile |-> [filename.profile EXCEPT !.functions = r.set],
         id |-> r.index + 1]))))

\* the closure of Profile::add that interns one api::Label
intern_label(p, label) ==
    Bind(intern(p, label.key), LAMBDA key :
    Bind(IF label.str = None
         THEN [profile |-> key.profile, id |-> 0]
         ELSE intern(key.profile, label.str[1]), LAMBDA str :
    Bind(IF label.num_unit = None
         THEN [profile |-> str.profile, id |-> 0]
         ELSE intern(str.profile, label.num_unit[1]), LAMBDA num_unit :
        [profile |-> num_unit.profile,
         label |-> [key |-> key.id, str |-> str.id,
                    num |-> label.num, num_unit |-> num_unit.id]])))

RECURSIVE intern_labels(_, _, _, _)
intern_labels(p, labels, i, acc) ==
    IF i > Len(labels)
    THEN [profile |-> p, labels |-> acc]
    ELSE Bind(intern_label(p, labels[i]), LAMBDA r :
             intern_labels(r.profile, labels, i + 1, Append(acc, r.label)))

\* the closure of Profile::add that maps the lines of one location
RECURSIVE add_lines(_, _, _, _)
add_lines(p, lines, i, acc) ==
    IF i > Len(lines)
    THEN [profile |-> p, lines |-> acc]
    ELSE Bind(add_function(p, lines[i].function), LAMBDA f :
             add_lines(f.profile, lines, i + 1,
                       Append(acc, [function_id |-> f.id, line |-> lines[i].line])))

\* the loop over sample.locations with the index of a location taken as its id
RECURSIVE add_locations_index_as_id(_, _, _, _)
add_locations_index_as_id(p, locs, i, acc) ==
    IF i > Len(locs)
    THEN [profile |-> p, ok |-> TRUE, locations |-> acc]
    ELSE Bind(add_mapping(p, locs[i].mapping), LAMBDA m :
             IF ~m.ok
             THEN [profile |-> m.profile, ok |-> FALSE, locations |-> acc]
             ELSE Bind(add_lines(m.profile, locs[i].lines, 1, <<>>), LAMBDA l :
                  Bind(dedup(l.profile.locations,
                             [id         |-> 0,
                              mapping_id |-> m.id,
                              address    |-> locs[i].address,
                              lines      |-> l.lines,
                              is_folded  |-> locs[i].is_folded]), LAMBDA r :
                      add_locations_index_as_id(
                          [l.profile EXCEPT !.locations = r.set],
                          locs, i + 1, Append(acc, r.index)))))

\* the loop of Profile::add over sample.locations; the ? on add_mapping
\* leaves the loop with everything done so far kept in the profile
RECURSIVE add_locations(_, _, _, _)
add_locations(p, locs, i, acc) ==
    IF i > Len(locs)
    THEN [profile |-> p, ok |-> TRUE, locations |-> acc]
    ELSE Bind(add_mapping(p, locs[i].mapping), LAMBDA m :
             IF ~m.ok
             THEN [profile |-> m.profile, ok |-> FALSE, locations |-> acc]
             ELSE Bind(add_lines(m.profile, locs[i].lines, 1, <<>>), LAMBDA l :
                  Bind(dedup(l.profile.locations,
                             [id         |-> 0,
                              mapping_id |-> m.id,
                              address    |-> locs[i].address,
                              lines      |-> l.lines,
                              is_folded  |-> locs[i].is_folded]), LAMBDA r :
                      add_locations([l.profile EXCEPT !.locations = r.set],
                                    locs, i + 1, Append(acc, r.index + 1)))))

\* upsert_sample with the found branch storing the new values instead of
\* adding them
upsert_sample_overwrite(samples, s, values) ==
    Bind(map_get_index_of(samples, s), LAMBDA index :
        IF index < 0
        THEN [samples |-> Append(samples, [key |-> s, value |-> values]),
              id |-> Len(samples) + 1]
        ELSE [samples |-> [samples EXCEPT ![index + 1].value = values],
              id |-> index + 1])

\* upsert_sample with the found branch returning the table size as the id
upsert_sample_len_id(samples, s, values) ==
    Bind(map_get_index_of(samples, s), LAMBDA index :
        IF index < 0
        THEN [samples |-> Append(samples, [key |-> s, value |-> values]),
              id |-> Len(samples) + 1]
        ELSE [samples |-> [samples EXCEPT ![index + 1].value =
                              [k \in 1..Len(@) |->
                                  IF k <= Len(values) THEN @[k] + values[k] ELSE @[k]]],
              id |-> Len(samples)])

\* upsert_sample with a key comparison that looks at the locations only
upsert_sample_by_locations(samples, s, values) ==
    Bind({i \in 1..Len(samples) : samples[i].key.locations = s.locations}, LAMBDA found :
    Bind(IF found = {} THEN -1 ELSE (CHOOSE i \in found : TRUE) - 1, LAMBDA index :
        IF index < 0
        THEN [samples |-> Append(samples, [key |-> s, value |-> values]),
              id |-> Len(samples) + 1]
        ELSE [samples |-> [samples EXCEPT ![index + 1].value =
                              [k \in 1..Len(@) |->
                                  IF k <= Len(values) THEN @[k] + values[k] ELSE @[k]]],
              id |-> index + 1]))

\* the match of Profile::add on self.samples.get_index_of(&s)
upsert_sample(samples, s, values) ==
    Bind(map_get_index_of(samples, s), LAMBDA index :
        IF index < 0
        THEN [samples |-> Append(samples, [key |-> s, value |-> values]),
              id |-> Len(samples) + 1]
        ELSE [samples |-> [samples EXCEPT ![index + 1].value =
                              [k \in 1..Len(@) |->
                                  IF k <= Len(values) THEN @[k] + values[k] ELSE @[k]]],
              id |-> index + 1])

\* Profile::add without the check of the number of values
add_without_length_check(p, sample) ==
    Bind(intern_labels(p, sample.labels, 1, <<>>), LAMBDA labels :
    Bind(add_locations(labels.profile, sample.locations, 1, <<>>), LAMBDA locs :
        IF ~locs.ok
        THEN [profile |-> locs.profile, ok |-> FALSE, id |-> 0]
        ELSE Bind(upsert_sample(locs.profile.samples,
                                [locations |-> locs.locations,
                                 labels |-> labels.labels],
                                sample.values), LAMBDA r :
                 [profile |-> [locs.profile EXCEPT !.samples = r.samples],
                  ok |-> TRUE,
                  id |-> r.id])))

\* Profile::add with the value-count check made after the labels are interned
add_check_after_labels(p, sample) ==
    Bind(intern_labels(p, sample.labels, 1, <<>>), LAMBDA labels :
        IF Len(sample.values) # Len(p.sample_types)
        THEN [profile |-> labels.profile, ok |-> TRUE, id |-> 0]
        ELSE Bind(add_locations(labels.profile, sample.locations, 1, <<>>), LAMBDA locs :
                 IF ~locs.ok
                 THEN [profile |-> locs.profile, ok |-> FALSE, id |-> 0]
                 ELSE Bind(upsert_sample(locs.profile.samples,
                                         [locations |-> locs.locations,
                                          labels |-> labels.labels],
                                         sample.values), LAMBDA r :
                          [profile |-> [locs.profile EXCEPT !.samples = r.samples],
                           ok |-> TRUE,
                           id |-> r.id])))

\* Profile::add; ok = FALSE is Err(FullError)
add(p, sample) ==
    IF Len(sample.values) # Len(p.sample_types)
    THEN [profile |-> p, ok |-> TRUE, id |-> 0]
    ELSE Bind(intern_labels(p, sample.labels, 1, <<>>), LAMBDA labels :
         Bind(add_locations(labels.profile, sample.locations, 1, <<>>), LAMBDA locs :
             IF ~locs.ok
             THEN [profile |-> locs.profile, ok |-> FALSE, id |-> 0]
             ELSE Bind(upsert_sample(locs.profile.samples,
                                     [locations |-> locs.locations,
                                      labels |-> labels.labels],
                                     sample.values), LAMBDA r :
                      [profile |-> [locs.profile EXCEPT !.samples = r.samples],
                       ok |-> TRUE,
                       id |-> r.id])))

\* one iteration of Profile::extract_api_sample_types (also used by reset
\* for the period type); None when a string id does not resolve
extract_api_value_type(p, vt) ==
    IF get_string(p, vt.type) = None \/ get_string(p, vt.unit) = None
    THEN None
    ELSE Some([type |-> get_string(p, vt.type)[1], unit |-> get_string(p, vt.unit)[1]])

\* Profile::extract_api_sample_types
extract_api_sample_types(p) ==
    IF \E i \in 1..Len(p.sample_types) :
           extract_api_value_type(p, p.sample_types[i]) = None
    THEN None
    ELSE Some([i \in 1..Len(p.sample_types) |->
                  extract_api_value_type(p, p.sample_types[i])[1]])

\* ProfileBuilder::build with the period type interned before the sample types
build_period_first(builder, now) ==
    Bind(Profile_new(unwrap_or(builder.start_time, now)), LAMBDA p0 :
        IF builder.period = None
        THEN build(builder, now)
        ELSE Bind(intern_value_type(p0, builder.period[1].type), LAMBDA r :
             Bind(intern_sample_types(r.profile, builder.sample_types, 1, <<>>),
                  LAMBDA st :
                 [st.profile EXCEPT
                     !.sample_types = st.sample_types,
                     !.period = Some([value |-> builder.period[1].value,
                                      type |-> r.vt])])))

\* Profile::reset that builds the new profile with the period type interned
\* before the sample types
reset_period_first(p, start_time, now) ==
    Bind(extract_api_sample_types(p), LAMBDA sample_types :
    Bind(IF p.period = None
         THEN None
         ELSE extract_api_value_type(p, p.period[1].type), LAMBDA period_type :
        IF sample_types = None \/ (p.period # None /\ period_type = None)
        THEN [profile |-> p, previous |-> None]
        ELSE [profile |-> build_period_first(
                              [period |-> IF p.period = None
                                          THEN None
                                          ELSE Some([type |-> period_type[1],
                                                     value |-> p.period[1].value]),
                               sample_types |-> sample_types[1],
                               start_time |-> start_time], now),
              previous |-> Some(p)]))

\* Profile::reset that copies the stored sample types and period, string ids
\* as they are, into the new profile
reset_copying_ids(p, start_time, now) ==
    [profile |-> [Profile_new(unwrap_or(start_time, now)) EXCEPT
                     !.sample_types = p.sample_types,
                     !.period = p.period],
     previous |-> Some(p)]

\* Profile::reset that builds the new profile without the period
reset_without_period(p, start_time, now) ==
    Bind(extract_api_sample_types(p), LAMBDA sample_types :
        IF sample_types = None
        THEN [profile |-> p, previous |-> None]
        ELSE [profile |-> build([period |-> None,
                                 sample_types |-> sample_types[1],
                                 start_time |-> start_time], now),
              previous |-> Some(p)])

\* Profile::reset that hands back the profile it has just built
reset_returning_new(p, start_time, now) ==
    Bind(extract_api_sample_types(p), LAMBDA sample_types :
    Bind(IF p.period = None
         THEN None
         ELSE extract_api_value_type(p, p.period[1].type), LAMBDA period_type :
        IF sample_types = None \/ (p.period # None /\ period_type = None)
        THEN [profile |-> p, previous |-> None]
        ELSE Bind(build([period |-> IF p.period = None
                                    THEN None
                                    ELSE Some([type |-> period_type[1],
                                               value |-> p.period[1].value]),
                         sample_types |-> sample_types[1],
                         start_time |-> start_time], now), LAMBDA profile_ :
                 [profile |-> profile_, previous |-> Some(profile_)])))

\* Profile::reset that starts the new profile at the old profile's start time
reset_keeping_start_time(p, start_time, now) ==
    Bind(extract_api_sample_types(p), LAMBDA sample_types :
    Bind(IF p.period = None
         THEN None
         ELSE extract_api_value_type(p, p.period[1].type), LAMBDA period_type :
        IF sample_types = None \/ (p.period # None /\ period_type = None)
        THEN [profile |-> p, previous |-> None]
        ELSE [profile |-> build([period |-> IF p.period = None
                                            THEN None
                                            ELSE Some([type |-> period_type[1],
                                                       value |-> p.period[1].value]),
                                 sample_types |-> sample_types[1],
                                 start_time |-> Some(p.start_time)], now),
              previous |-> Some(p)]))

\* Profile::reset; previous = None is the failure return, which leaves
\* the profile as it was
reset(p, start_time, now) ==
    Bind(extract_api_sample_types(p), LAMBDA sample_types :
    Bind(IF p.period = None
         THEN None
         ELSE extract_api_value_type(p, p.period[1].type), LAMBDA period_type :
        IF sample_types = None \/ (p.period # None /\ period_type = None)
        THEN [profile |-> p, previous |-> None]
        ELSE [profile |-> build([period |-> IF p.period = None
                                            THEN None
                                            ELSE Some([type |-> period_type[1],
                                                       value |-> p.period[1].value]),
                                 sample_types |-> sample_types[1],
                                 start_time |-> start_time], now),
              previous |-> Some(p)]))

\* ddog_Profile_reset: profile.reset(start_time.map(SystemTime::from)).is_some()
ddog_Profile_reset(p, start_time, now) ==
    Bind(reset(p, start_time, now), LAMBDA r :
        [profile |-> r.profile, ok |-> r.previous # None, previous |-> r.previous])

\* Profile::add_endpoint that interns the two label keys but leaves the cached
\* ids as they were
add_endpoint_ids_not_cached(p, local_root_span_id, endpoint) ==
    Bind(IF p.endpoints.mappings = <<>>
         THEN intern(p, "local root span id")
         ELSE [profile |-> p, id |-> p.endpoints.local_root_span_id_label], LAMBDA l1 :
    Bind(IF p.endpoints.mappings = <<>>
         THEN intern(l1.profile, "trace endpoint")
         ELSE [profile |-> l1.profile, id |-> p.endpoints.endpoint_label], LAMBDA l2 :
    Bind(intern(l2.profile, local_root_span_id), LAMBDA interned_span_id :
    Bind(intern(interned_span_id.profile, endpoint), LAMBDA interned_endpoint :
        [interned_endpoint.profile EXCEPT
            !.endpoints = [mappings |-> map_insert(p.endpoints.mappings,
                                                   interned_span_id.id,
                                                   interned_endpoint.id),
                           local_root_span_id_label |-> p.endpoints.local_root_span_id_label,
                           endpoint_label |-> p.endpoints.endpoint_label,
                           stats |-> ProfiledEndpointsStats_add_endpoint(
                                         p.endpoints.stats, endpoint)]]))))

\* Profile::add_endpoint
add_endpoint(p, local_root_span_id, endpoint) ==
    Bind(IF p.endpoints.mappings = <<>>
         THEN intern(p, "local root span id")
         ELSE [profile |-> p, id |-> p.endpoints.local_root_span_id_label], LAMBDA l1 :
    Bind(IF p.endpoints.mappings = <<>>
         THEN intern(l1.profile, "trace endpoint")
         ELSE [profile |-> l1.profile, id |-> p.endpoints.endpoint_label], LAMBDA l2 :
    Bind(intern(l2.profile, local_root_span_id), LAMBDA interned_span_id :
    Bind(intern(interned_span_id.profile, endpoint), LAMBDA interned_endpoint :
        [interned_endpoint.profile EXCEPT
            !.endpoints = [mappings |-> map_insert(p.endpoints.mappings,
                                                   interned_span_id.id,
                                                   interned_endpoint.id),
                           local_root_span_id_label |-> l1.id,
                           endpoint_label |-> l2.id,
                           stats |-> ProfiledEndpointsStats_add_endpoint(
                                         p.endpoints.stats, endpoint)]]))))

-----------------------------------------------------------------------------
(* impl From<&Profile> for pprof::Profile, Profile::serialize *)

\* the label scan without the break: the endpoint of the last label whose key
\* is the local root span id label and whose value is in the map
find_endpoint_no_break(endpoints, labels) ==
    Bind({i \in 1..Len(labels) :
             /\ labels[i].key = endpoints.local_root_span_id_label
             /\ map_get(endpoints.mappings, labels[i].str) # None}, LAMBDA hits :
        IF hits = {}
        THEN None
        ELSE map_get(endpoints.mappings,
                     labels[CHOOSE i \in hits : \A j \in hits : j <= i].str))

\* the inner for loop over sample.labels: the endpoint of the first label
\* whose key is the local root span id label, None if there is no such
\* label or its value is not in the map
find_endpoint(endpoints, labels) ==
    IF \E i \in 1..Len(labels) : labels[i].key = endpoints.local_root_span_id_label
    THEN LET first == CHOOSE i \in 1..Len(labels) :
                          /\ labels[i].key = endpoints.local_root_span_id_label
                          /\ \A j \in 1..(i - 1) :
                                 labels[j].key # endpoints.local_root_span_id_label
         IN  map_get(endpoints.mappings, labels[first].str)
    ELSE None

\* the loop body with the derived label put in front of the sample's labels
with_endpoint_label_in_front(endpoints, sample) ==
    Bind(find_endpoint(endpoints, sample.labels), LAMBDA endpoint :
        IF endpoint = None
        THEN sample
        ELSE [sample EXCEPT !.labels =
                 <<[key |-> endpoints.endpoint_label, str |-> endpoint[1],
                    num |-> 0, num_unit |-> 0]>> \o @])

\* the body of the for loop over samples
with_endpoint_label(endpoints, sample) ==
    Bind(find_endpoint(endpoints, sample.labels), LAMBDA endpoint :
        IF endpoint = None
        THEN sample
        ELSE [sample EXCEPT !.labels =
                 Append(@, [key |-> endpoints.endpoint_label, str |-> endpoint[1],
                            num |-> 0, num_unit |-> 0])])

\* start_time.duration_since(UNIX_EPOCH).map_or(0, ...)
time_nanos_of(start_time) ==
    IF start_time < 0 THEN 0 ELSE Min(start_time, I64_MAX)

\* the conversion with the 0-based index of an entity as its id
pprof_from_index_as_id(p) ==
    [sample_types |-> p.sample_types,
     samples      |-> [i \in 1..Len(p.samples) |->
                          IF p.endpoints.mappings # <<>>
                          THEN with_endpoint_label(p.endpoints,
                                   [location_ids |-> p.samples[i].key.locations,
                                    values       |-> p.samples[i].value,
                                    labels       |-> p.samples[i].key.labels])
                          ELSE [location_ids |-> p.samples[i].key.locations,
                                values       |-> p.samples[i].value,
                                labels       |-> p.samples[i].key.labels]],
     mappings     |-> [i \in 1..Len(p.mappings) |->
                          [id           |-> i - 1,
                           memory_start |-> p.mappings[i].memory_start,
                           memory_limit |-> p.mappings[i].memory_limit,
                           file_offset  |-> p.mappings[i].file_offset,
                           filename     |-> p.mappings[i].filename,
                           build_id     |-> p.mappings[i].build_id]],
     locations    |-> [i \in 1..Len(p.locations) |->
                          [p.locations[i] EXCEPT !.id = i - 1]],
     functions    |-> [i \in 1..Len(p.functions) |->
                          [p.functions[i] EXCEPT !.id = i - 1]],
     string_table |-> p.strings,
     time_nanos   |-> time_nanos_of(p.start_time),
     duration_nanos |-> 0,
     period       |-> IF p.period = None THEN 0 ELSE p.period[1].value,
     period_type  |-> IF p.period = None THEN None ELSE Some(p.period[1].type)]

\* the conversion that walks the sample table from its last entry to its first
pprof_from_last_first(p) ==
    [sample_types |-> p.sample_types,
     samples      |-> [i \in 1..Len(p.samples) |->
                          IF p.endpoints.mappings # <<>>
                          THEN with_endpoint_label(p.endpoints,
                                   [location_ids |-> p.samples[Len(p.samples) + 1 - i].key.locations,
                                    values       |-> p.samples[Len(p.samples) + 1 - i].value,
                                    labels       |-> p.samples[Len(p.samples) + 1 - i].key.labels])
                          ELSE [location_ids |-> p.samples[Len(p.samples) + 1 - i].key.locations,
                                values       |-> p.samples[Len(p.samples) + 1 - i].value,
                                labels       |-> p.samples[Len(p.samples) + 1 - i].key.labels]],
     mappings     |-> [i \in 1..Len(p.mappings) |->
                          [id           |-> i,
                           memory_start |-> p.mappings[i].memory_start,
                           memory_limit |-> p.mappings[i].memory_limit,
                           file_offset  |-> p.mappings[i].file_offset,
                           filename     |-> p.mappings[i].filename,
                           build_id     |-> p.mappings[i].build_id]],
     locations    |-> [i \in 1..Len(p.locations) |->
                          [p.locations[i] EXCEPT !.id = i]],
     functions    |-> [i \in 1..Len(p.functions) |->
                          [p.functions[i] EXCEPT !.id = i]],
     string_table |-> p.strings,
     time_nanos   |-> time_nanos_of(p.start_time),
     duration_nanos |-> 0,
     period       |-> IF p.period = None THEN 0 ELSE p.period[1].value,
     period_type  |-> IF p.period = None THEN None ELSE Some(p.period[1].type)]

\* impl From<&Profile> for pprof::Profile
pprof_from(p) ==
    [sample_types |-> p.sample_types,
     samples      |-> [i \in 1..Len(p.samples) |->
                          IF p.endpoints.mappings # <<>>
                          THEN with_endpoint_label(p.endpoints,
                                   [location_ids |-> p.samples[i].key.locations,
                                    values       |-> p.samples[i].value,
                                    labels       |-> p.samples[i].key.labels])
                          ELSE [location_ids |-> p.samples[i].key.locations,
                                values       |-> p.samples[i].value,
                                labels       |-> p.samples[i].key.labels]],
     mappings     |-> [i \in 1..Len(p.mappings) |->
                          [id           |-> i,
                           memory_start |-> p.mappings[i].memory_start,
                           memory_limit |-> p.mappings[i].memory_limit,
                           file_offset  |-> p.mappings[i].file_offset,
                           filename     |-> p.mappings[i].filename,
                           build_id     |-> p.mappings[i].build_id]],
     locations    |-> [i \in 1..Len(p.locations) |->
                          [p.locations[i] EXCEPT !.id = i]],
     functions    |-> [i \in 1..Len(p.functions) |->
                          [p.functions[i] EXCEPT !.id = i]],
     string_table |-> p.strings,
     time_nanos   |-> time_nanos_of(p.start_time),
     duration_nanos |-> 0,
     period       |-> IF p.period = None THEN 0 ELSE p.period[1].value,
     period_type  |-> IF p.period = None THEN None ELSE Some(p.period[1].type)]

\* the signed difference of the two clock readings, the Err case not replaced
duration_since_signed(end, start) ==
    end - start

\* end.duration_since(start).unwrap_or(Duration::ZERO)
duration_since_or_zero(end, start) ==
    IF end >= start THEN end - start ELSE 0

\* Profile::serialize; the prost encoding of the message is not modelled,
\* the message itself stands for the buffer
serialize(p, end_time, duration, now) ==
    [start  |-> p.start_time,
     end    |-> unwrap_or(end_time, now),
     buffer |-> [pprof_from(p) EXCEPT !.duration_nanos =
                    Min(unwrap_or(duration,
                                  duration_since_or_zero(unwrap_or(end_time, now),
                                                         p.start_time)),
                        I64_MAX)],
     endpoints_stats |-> p.endpoints.stats]

-----------------------------------------------------------------------------
(* The C interface (ddprof-ffi).  A CharSlice is [utf8, text]: whether its  *)
(* bytes are valid UTF-8, and the text a lossy decoding of them gives (the  *)
(* bytes themselves when they are valid).                                   *)

\* CharSlice::try_to_utf8; None stands for Err(Utf8Error)
try_to_utf8(slice) == IF slice.utf8 THEN Some(slice.text) ELSE None

\* CharSlice::to_utf8_lossy
to_utf8_lossy(slice) == slice.text

\* the items of a sequence of conversion results, None if one of them failed
collect(converted) ==
    IF \E i \in 1..Len(converted) : converted[i] = None
    THEN None
    ELSE Some([i \in 1..Len(converted) |-> converted[i][1]])

\* impl TryFrom<&Mapping> for api::Mapping
Mapping_try_from(mapping) ==
    Bind(try_to_utf8(mapping.filename), LAMBDA filename :
    Bind(try_to_utf8(mapping.build_id), LAMBDA build_id :
        IF filename = None \/ build_id = None
        THEN None
        ELSE Some([memory_start |-> mapping.memory_start,
                   memory_limit |-> mapping.memory_limit,
                   file_offset |-> mapping.file_offset,
                   filename |-> filename[1],
                   build_id |-> build_id[1]])))

\* impl TryFrom<&Function> for api::Function
Function_try_from(function) ==
    Bind(try_to_utf8(function.name), LAMBDA name :
    Bind(try_to_utf8(function.system_name), LAMBDA system_name :
    Bind(try_to_utf8(function.filename), LAMBDA filename :
        IF name = None \/ system_name = None \/ filename = None
        THEN None
        ELSE Some([name |-> name[1],
                   system_name |-> system_name[1],
                   filename |-> filename[1],
                   start_line |-> function.start_line]))))

\* impl TryFrom<&Line> for api::Line
Line_try_from(line) ==
    Bind(Function_try_from(line.function), LAMBDA function :
        IF function = None
        THEN None
        ELSE Some([function |-> function[1], line |-> line.line]))

\* impl TryFrom<&Location> for api::Location
Location_try_from(location) ==
    Bind(Mapping_try_from(location.mapping), LAMBDA mapping :
    Bind(collect([i \in 1..Len(location.lines) |-> Line_try_from(location.lines[i])]),
         LAMBDA lines :
        IF mapping = None \/ lines = None
        THEN None
        ELSE Some([mapping |-> mapping[1],
                   address |-> location.address,
                   lines |-> lines[1],
                   is_folded |-> location.is_folded])))

\* impl TryFrom<&Label> for api::Label: an empty str or num_unit is absent
Label_try_from(label) ==
    Bind(try_to_utf8(label.key), LAMBDA key :
    Bind(try_to_utf8(label.str), LAMBDA str :
    Bind(try_to_utf8(label.num_unit), LAMBDA num_unit :
        IF key = None \/ str = None \/ num_unit = None
        THEN None
        ELSE Some([key |-> key[1],
                   str |-> IF str[1] = "" THEN None ELSE Some(str[1]),
                   num |-> label.num,
                   num_unit |-> IF num_unit[1] = "" THEN None ELSE Some(num_unit[1])]))))

\* impl TryFrom<Sample> for api::Sample
Sample_try_from(sample) ==
    Bind(collect([i \in 1..Len(sample.locations) |->
                     Location_try_from(sample.locations[i])]), LAMBDA locations :
    Bind(collect([i \in 1..Len(sample.labels) |->
                     Label_try_from(sample.labels[i])]), LAMBDA labels :
        IF locations = None \/ labels = None
        THEN None
        ELSE Some([locations |-> locations[1],
                   values |-> sample.values,
                   labels |-> labels[1]])))

\* the sample with every string decoded lossily, invalid bytes replaced
Sample_from_lossy(sample) ==
    [locations |-> [i \in 1..Len(sample.locations) |->
        [mapping |-> [sample.locations[i].mapping EXCEPT
                         !.filename = to_utf8_lossy(@),
                         !.build_id = to_utf8_lossy(@)],
         address |-> sample.locations[i].address,
         lines |-> [j \in 1..Len(sample.locations[i].lines) |->
                       [function |-> [sample.locations[i].lines[j].function EXCEPT
                                         !.name = to_utf8_lossy(@),
                                         !.system_name = to_utf8_lossy(@),
                                         !.filename = to_utf8_lossy(@)],
                        line |-> sample.locations[i].lines[j].line]],
         is_folded |-> sample.locations[i].is_folded]],
     values |-> sample.values,
     labels |-> [i \in 1..Len(sample.labels) |->
        [key |-> to_utf8_lossy(sample.labels[i].key),
         str |-> IF to_utf8_lossy(sample.labels[i].str) = ""
                 THEN None ELSE Some(to_utf8_lossy(sample.labels[i].str)),
         num |-> sample.labels[i].num,
         num_unit |-> IF to_utf8_lossy(sample.labels[i].num_unit) = ""
                      THEN None ELSE Some(to_utf8_lossy(sample.labels[i].num_unit))]]]

\* ddog_Profile_add that decodes the strings of the sample lossily
ddog_Profile_add_lossy(p, sample) ==
    Bind(Sample_from_lossy(sample), LAMBDA s :
    Bind(add(p, s), LAMBDA r :
        [profile |-> r.profile,
         id |-> IF r.ok THEN r.id ELSE 0,
         added |-> Some([sample |-> s, ok |-> r.ok, id |-> r.id])]))

\* ddog_Profile_add; id is the u64 returned, added the call of Profile::add
\* it made, if it made one
ddog_Profile_add(p, sample) ==
    Bind(Sample_try_from(sample), LAMBDA s :
        IF s = None
        THEN [profile |-> p, id |-> 0, added |-> None]
        ELSE Bind(add(p, s[1]), LAMBDA r :
                 [profile |-> r.profile,
                  id |-> IF r.ok THEN r.id ELSE 0,
                  added |-> Some([sample |-> s[1], ok |-> r.ok, id |-> r.id])]))

\* ddprof_ffi_Profile_set_endpoint
ddprof_ffi_Profile_set_endpoint(p, local_root_span_id, endpoint) ==
    add_endpoint(p, to_utf8_lossy(local_root_span_id), to_utf8_lossy(endpoint))

\* the i64 the caller passes as duration, cast to u64 whatever its sign: a
\* negative value becomes a duration beyond i64::MAX
ddog_Profile_serialize_cast_negative(p, end_time, duration_nanos, now) ==
    serialize(p, end_time,
              IF duration_nanos = None THEN None
              ELSE IF duration_nanos[1] < 0
                   THEN Some(2 * (I64_MAX + 1) + duration_nanos[1])
                   ELSE Some(duration_nanos[1]),
              now)

\* ddog_Profile_serialize: end_time arrives as a Timespec and duration_nanos
\* as an i64; the result is SerializeResult::Ok with the encoded profile
ddog_Profile_serialize(p, end_time, duration_nanos, now) ==
    serialize(p, end_time,
              IF duration_nanos = None THEN None
              ELSE IF duration_nanos[1] < 0 THEN None
              ELSE Some(duration_nanos[1]),
              now)

-----------------------------------------------------------------------------
(* Inputs of the API calls *)

Times == {-1, 2}

vtSamples == [type |-> "samples", unit |-> "count"]

vtWall == [type |-> "wall-time", unit |-> "nanoseconds"]

mapPhp ==
    [memory_start |-> 0, memory_limit |-> 0, file_offset |-> 0,
     filename |-> "php", build_id |-> ""]

fnMain ==
    [name |-> "{main}", system_name |-> "{main}", filename |-> "index.php",
     start_line |-> 0]

fnTest ==
    [name |-> "test", system_name |-> "test", filename |-> "index.php",
     start_line |-> 3]

locMain ==
    [mapping |-> mapPhp, address |-> 0,
     lines |-> <<[function |-> fnMain, line |-> 0]>>, is_folded |-> FALSE]

locTest ==
    [mapping |-> mapPhp, address |-> 0,
     lines |-> <<[function |-> fnTest, line |-> 0]>>, is_folded |-> FALSE]

lblSpan(id) ==
    [key |-> "local root span id", str |-> Some(id), num |-> 0, num_unit |-> None]

lblOther == [key |-> "other", str |-> Some("test"), num |-> 0, num_unit |-> None]

lblPid == [key |-> "pid", str |-> None, num |-> 101, num_unit |-> None]

lblPidEmpty == [key |-> "pid", str |-> Some(""), num |-> 101, num_unit |-> None]

\* a CharSlice over valid UTF-8
CharSlice(text) == [utf8 |-> TRUE, text |-> text]

\* a CharSlice over bytes that are not UTF-8
InvalidSlice == [utf8 |-> FALSE, text |-> "U+FFFD"]

ffiMapPhp ==
    [memory_start |-> 0, memory_limit |-> 0, file_offset |-> 0,
     filename |-> CharSlice("php"), build_id |-> CharSlice("")]

ffiFnMain ==
    [name |-> CharSlice("{main}"), system_name |-> CharSlice("{main}"),
     filename |-> CharSlice("index.php"), start_line |-> 0]

ffiLocMain ==
    [mapping |-> ffiMapPhp, address |-> 0,
     lines |-> <<[function |-> ffiFnMain, line |-> 0]>>, is_folded |-> FALSE]

ffiLblPid ==
    [key |-> CharSlice("pid"), str |-> CharSlice(""), num |-> 101,
     num_unit |-> CharSlice("")]

ffiLblInvalid ==
    [key |-> CharSlice("other"), str |-> InvalidSlice, num |-> 0,
     num_unit |-> CharSlice("")]

\* a label with a string value and a number with its unit
ffiLblBoth ==
    [key |-> CharSlice("size"), str |-> CharSlice("big"), num |-> 1,
     num_unit |-> CharSlice("bytes")]

\* a host that samples stacks: two sample types and a period; samples that
\* repeat a key with other values, differ in a location or in a label, and one
\* with the wrong number of values
StackHost ==
    [builder |-> [sample_types |-> <<vtSamples, vtWall>>,
                  period |-> Some([type |-> vtWall, value |-> 10]),
                  start_time |-> Some(2)],
     samples |->
        {[locations |-> <<locMain>>,          values |-> <<1, 2>>, labels |-> <<>>],
         [locations |-> <<locMain>>,          values |-> <<3, 1>>, labels |-> <<>>],
         [locations |-> <<locTest, locMain>>, values |-> <<1, 1>>, labels |-> <<>>],
         [locations |-> <<locMain>>,          values |-> <<1, 1>>, labels |-> <<lblPid>>],
         [locations |-> <<locMain>>,          values |-> <<2, 2>>, labels |-> <<lblPidEmpty>>],
         [locations |-> <<locTest>>,          values |-> <<1>>,    labels |-> <<lblOther>>]},
     span_ids |-> {"10"},
     endpoints |-> {"my endpoint"},
     serialize_args |-> {[end_time |-> None, duration |-> None],
                         [end_time |-> Some(12), duration |-> None]},
     ffi_serialize_args |-> {[end_time |-> None, duration_nanos |-> Some(-3)]},
     ffi_samples |->
        {[locations |-> <<ffiLocMain>>, values |-> <<1, 1>>, labels |-> <<ffiLblPid>>],
         [locations |-> <<ffiLocMain>>, values |-> <<1, 1>>,
          labels |-> <<ffiLblPid, ffiLblInvalid>>],
         [locations |-> <<[ffiLocMain EXCEPT !.lines[1].function.filename = InvalidSlice]>>,
          values |-> <<1, 1>>, labels |-> <<ffiLblPid>>],
         [locations |-> <<[ffiLocMain EXCEPT !.mapping.build_id = InvalidSlice]>>,
          values |-> <<1, 1>>, labels |-> <<ffiLblPid>>]},
     ffi_endpoints |-> {},
     ffi_reset_times |-> {}]

\* a host that correlates spans: one sample type, no period, the clock as
\* start time; samples without locations that carry span labels, and one with
\* one value too many
SpanHost ==
    [builder |-> [sample_types |-> <<vtSamples>>,
                  period |-> None,
                  start_time |-> None],
     samples |->
        {[locations |-> <<>>, values |-> <<1>>, labels |-> <<lblSpan("10"), lblOther>>],
         [locations |-> <<>>, values |-> <<2>>, labels |-> <<lblOther, lblSpan("10")>>],
         [locations |-> <<>>, values |-> <<1>>, labels |-> <<lblSpan("11"), lblSpan("10")>>],
         [locations |-> <<>>, values |-> <<1>>, labels |-> <<lblPid>>],
         [locations |-> <<>>, values |-> <<1, 2>>, labels |-> <<lblSpan("11")>>]},
     span_ids |-> {"10", "11"},
     endpoints |-> {"my endpoint", "other endpoint"},
     serialize_args |-> {[end_time |-> None, duration |-> None],
                         [end_time |-> Some(-1), duration |-> Some(7)]},
     ffi_serialize_args |-> {},
     ffi_samples |-> {},
     ffi_endpoints |-> {},
     ffi_reset_times |-> {None}]

vtBare == [type |-> "samples", unit |-> ""]

mapLibc ==
    [memory_start |-> 0, memory_limit |-> 0, file_offset |-> 0,
     filename |-> "libc.so", build_id |-> "abc"]

fnMalloc ==
    [name |-> "malloc", system_name |-> "malloc", filename |-> "malloc.c",
     start_line |-> 0]

locMalloc ==
    [mapping |-> mapLibc, address |-> 0,
     lines |-> <<[function |-> fnMalloc, line |-> 0]>>, is_folded |-> FALSE]

lblThread ==
    [key |-> "thread name", str |-> Some("worker"), num |-> 0, num_unit |-> None]

lblSize == [key |-> "size", str |-> None, num |-> 1, num_unit |-> Some("bytes")]

\* a host whose sample types share a type string and have an empty unit, with
\* the first of them as period type; its samples bring many strings the table
\* has not seen, in labels only, in a location only, and in both
EdgeHost ==
    [builder |-> [sample_types |-> <<vtBare, vtSamples>>,
                  period |-> Some([type |-> vtBare, value |-> 1]),
                  start_time |-> Some(12)],
     samples |->
        {[locations |-> <<>>, values |-> <<1, 1>>, labels |-> <<lblThread, lblSize>>],
         [locations |-> <<>>, values |-> <<1, 1>>,
          labels |-> <<lblSpan("10"), lblOther, lblPid>>],
         [locations |-> <<locMalloc>>, values |-> <<1, 1>>, labels |-> <<>>],
         [locations |-> <<locMalloc>>, values |-> <<1, 1>>,
          labels |-> <<lblSpan("10"), lblOther, lblPid>>]},
     span_ids |-> {"10"},
     endpoints |-> {"my endpoint"},
     serialize_args |-> {[end_time |-> None, duration |-> None],
                         [end_time |-> Some(2), duration |-> Some(12)]},
     ffi_serialize_args |-> {[end_time |-> Some(12), duration_nanos |-> Some(7)]},
     ffi_samples |->
        {[locations |-> <<>>, values |-> <<1, 1>>, labels |-> <<ffiLblBoth>>]},
     ffi_endpoints |->
        {[local_root_span_id |-> CharSlice("10"), endpoint |-> InvalidSlice]},
     ffi_reset_times |-> {}]

Hosts == {StackHost, SpanHost, EdgeHost}

\* start times passed to reset
ResetTimes == {None, Some(-1), Some(2)}

-----------------------------------------------------------------------------
(* The calls *)

Init ==
    \E h \in Hosts, now \in Times :
        /\ host = h
        /\ profile = build(h.builder, now)
        /\ call = [op |-> "build", builder |-> h.builder]
        /\ result = [ok |-> TRUE]
        /\ history = <<>>
        /\ twin = None
        /\ collection = None
        /\ storage = None
        /\ profile_builder = None
        /\ interning = None
        /\ vec = None
        /\ flusher = None
        /\ sidecar = None
        /\ transport = None

Add(sample) ==
    /\ Len(history) < MaxCalls
    /\ \E r \in {add(profile, sample)} :
           /\ profile' = r.profile
           /\ call' = [op |-> "add", sample |-> sample]
           /\ result' = [ok |-> r.ok, id |-> r.id]
           /\ history' = Append(history, [op |-> "add", sample |-> sample,
                                          ok |-> r.ok, id |-> r.id])
    /\ UNCHANGED host

AddEndpoint(local_root_span_id, endpoint) ==
    /\ Len(history) < MaxCalls
    /\ profile' = add_endpoint(profile, local_root_span_id, endpoint)
    /\ call' = [op |-> "add_endpoint", local_root_span_id |-> local_root_span_id,
                endpoint |-> endpoint]
    /\ result' = [ok |-> TRUE]
    /\ history' = Append(history, call')
    /\ UNCHANGED host

Reset(start_time, now) ==
    /\ Len(history) < MaxCalls
    /\ \E r \in {reset(profile, start_time, now)} :
           /\ profile' = r.profile
           /\ call' = [op |-> "reset", start_time |-> start_time]
           /\ result' = [ok |-> r.previous # None, previous |-> r.previous]
           /\ history' = Append(history, [op |-> "reset", ok |-> r.previous # None,
                                          previous |-> r.previous])
    /\ UNCHANGED host

\* Profile::serialize that keeps the labels it derives in the sample keys
Serialize_storing_labels(end_time, duration, now) ==
    /\ call' = [op |-> "serialize", end_time |-> end_time, duration |-> duration]
    /\ result' = [ok |-> TRUE, encoded |-> serialize(profile, end_time, duration, now)]
    /\ profile' = [profile EXCEPT
                      !.samples = [i \in 1..Len(@) |->
                                      [@[i] EXCEPT !.key.labels =
                                          result'.encoded.buffer.samples[i].labels]]]
    /\ UNCHANGED <<host, history>>

Serialize(end_time, duration, now) ==
    /\ call' = [op |-> "serialize", end_time |-> end_time, duration |-> duration]
    /\ result' = [ok |-> TRUE, encoded |-> serialize(profile, end_time, duration, now)]
    /\ UNCHANGED <<host, profile, history>>

FfiSerialize(end_time, duration_nanos, now) ==
    /\ call' = [op |-> "ddog_Profile_serialize", end_time |-> end_time,
                duration_nanos |-> duration_nanos]
    /\ result' = [ok |-> TRUE,
                  encoded |-> ddog_Profile_serialize(profile, end_time,
                                                     duration_nanos, now)]
    /\ UNCHANGED <<host, profile, history>>

\* the returned profile is dropped; the history keeps it
FfiReset(start_time, now) ==
    /\ Len(history) < MaxCalls
    /\ \E r \in {ddog_Profile_reset(profile, start_time, now)} :
           /\ profile' = r.profile
           /\ call' = [op |-> "ddog_Profile_reset", start_time |-> start_time]
           /\ result' = [ok |-> r.ok]
           /\ history' = Append(history, [op |-> "reset", ok |-> r.ok,
                                          previous |-> r.previous])
    /\ UNCHANGED host

FfiAdd(sample) ==
    /\ Len(history) < MaxCalls
    /\ \E r \in {ddog_Profile_add(profile, sample)} :
           /\ profile' = r.profile
           /\ call' = [op |-> "ddog_Profile_add", sample |-> sample]
           /\ result' = [id |-> r.id]
           /\ history' = IF r.added = None
                         THEN history
                         ELSE Append(history, [op |-> "add",
                                               sample |-> r.added[1].sample,
                                               ok |-> r.added[1].ok,
                                               id |-> r.added[1].id])
    /\ UNCHANGED host

FfiSetEndpoint(local_root_span_id, endpoint) ==
    /\ Len(history) < MaxCalls
    /\ profile' = ddprof_ffi_Profile_set_endpoint(profile, local_root_span_id, endpoint)
    /\ call' = [op |-> "ddprof_ffi_Profile_set_endpoint",
                local_root_span_id |-> local_root_span_id, endpoint |-> endpoint]
    /\ result' = [ok |-> TRUE]
    /\ history' = Append(history,
                         [op |-> "add_endpoint",
                          local_root_span_id |-> to_utf8_lossy(local_root_span_id),
                          endpoint |-> to_utf8_lossy(endpoint)])
    /\ UNCHANGED host

Next ==
    \/ \E sample \in host.samples : Add(sample) /\ UNCHANGED <<twin, collection, crateVars>>
    \/ \E span \in host.span_ids, endpoint \in host.endpoints :
           AddEndpoint(span, endpoint) /\ UNCHANGED <<twin, collection, crateVars>>
    \/ \E start_time \in ResetTimes, now \in Times :
           Reset(start_time, now) /\ UNCHANGED <<twin, collection, crateVars>>
    \/ \E args \in host.serialize_args, now \in Times :
           Serialize(args.end_time, args.duration, now) /\ UNCHANGED <<twin, collection, crateVars>>
    \/ \E args \in host.ffi_serialize_args, now \in Times :
           FfiSerialize(args.end_time, args.duration_nanos, now) /\ UNCHANGED <<twin, collection, crateVars>>
    \/ \E sample \in host.ffi_samples : FfiAdd(sample) /\ UNCHANGED <<twin, collection, crateVars>>
    \/ \E args \in host.ffi_endpoints :
           FfiSetEndpoint(args.local_root_span_id, args.endpoint) /\ UNCHANGED <<twin, collection, crateVars>>
    \/ \E start_time \in host.ffi_reset_times, now \in Times :
           FfiReset(start_time, now) /\ UNCHANGED <<twin, collection, crateVars>>

Spec == Init /\ [][Next]_vars

-----------------------------------------------------------------------------
(* Two profiles built alike and driven through the same calls; a reset      *)
(* without start time reads the clock for each on its own.                  *)

TwinInit ==
    \E h \in Hosts, now \in Times :
        /\ host = h
        /\ profile = build(h.builder, now)
        /\ twin = [profile |-> build(h.builder, now), encoded |-> None]
        /\ collection = None
        /\ call = [op |-> "build", builder |-> h.builder]
        /\ result = [ok |-> TRUE]
        /\ history = <<>>
        /\ storage = None
        /\ profile_builder = None
        /\ interning = None
        /\ vec = None
        /\ flusher = None
        /\ sidecar = None
        /\ transport = None

TwinAdd(sample) ==
    /\ Add(sample)
    /\ \E t \in {add(twin.profile, sample)} :
           twin' = [profile |-> t.profile, encoded |-> None]

TwinAddEndpoint(local_root_span_id, endpoint) ==
    /\ AddEndpoint(local_root_span_id, endpoint)
    /\ twin' = [profile |-> add_endpoint(twin.profile, local_root_span_id, endpoint),
                encoded |-> None]

TwinReset(start_time, now, twin_now) ==
    /\ Reset(start_time, now)
    /\ \E t \in {reset(twin.profile, start_time, twin_now)} :
           twin' = [profile |-> t.profile, encoded |-> None]

\* both are serialized to the same end time: the one given, or else the
\* same reading of the clock
TwinSerialize(end_time, duration, now) ==
    /\ Serialize(end_time, duration, now)
    /\ twin' = [twin EXCEPT
                    !.encoded = Some(serialize(twin.profile, end_time, duration, now))]

TwinNext ==
    \/ \E sample \in host.samples : TwinAdd(sample) /\ UNCHANGED <<collection, crateVars>>
    \/ \E span \in host.span_ids, endpoint \in host.endpoints :
           TwinAddEndpoint(span, endpoint) /\ UNCHANGED <<collection, crateVars>>
    \/ \E start_time \in ResetTimes, now \in Times, twin_now \in Times :
           TwinReset(start_time, now, twin_now) /\ UNCHANGED <<collection, crateVars>>
    \/ \E args \in host.serialize_args, now \in Times :
           TwinSerialize(args.end_time, args.duration, now) /\ UNCHANGED <<collection, crateVars>>

TwinSpec == TwinInit /\ [][TwinNext]_vars

-----------------------------------------------------------------------------
(* trace-utils/src/tracer_payload.rs: TracerPayloadCollection.  A collection *)
(* is [encoding, payloads]; a V07 payload is a pb::TracerPayload, a V04     *)
(* payload a vector of spans.                                               *)

\* size() up to which a collection is appended to
MaxPayloads == 4

\* the strings the payload headers use, in the order String::cmp gives them
HeaderStrings == <<"", "1.0", "2.0", "php", "prod", "staging">>

\* the place of a header string in that order
StringRank(str) == CHOOSE i \in 1..Len(HeaderStrings) : HeaderStrings[i] = str

\* Ord::cmp of two strings
str_cmp(a, b) ==
    IF a = b THEN "Equal"
    ELSE IF StringRank(a) < StringRank(b) THEN "Less" ELSE "Greater"

\* Ordering::then
then(first, second) == IF first = "Equal" THEN second ELSE first

\* trace_utils::cmp_send_data_payloads: the payloads compared by their header
\* fields, neither by chunks nor by tags
cmp_send_data_payloads(a, b) ==
    then(str_cmp(a.tracer_version, b.tracer_version),
    then(str_cmp(a.language_version, b.language_version),
    then(str_cmp(a.language_name, b.language_name),
    then(str_cmp(a.hostname, b.hostname),
    then(str_cmp(a.container_id, b.container_id),
    then(str_cmp(a.runtime_id, b.runtime_id),
    then(str_cmp(a.env, b.env),
         str_cmp(a.app_version, b.app_version))))))))

\* slice::sort_unstable_by(cmp_send_data_payloads): every arrangement of the
\* elements that is in order; which of them the sort gives is not specified
sort_unstable_by(v) ==
    {sorted \in {[i \in 1..Len(v) |-> v[f[i]]] : f \in Permutations(1..Len(v))} :
        \A i \in 1..(Len(v) - 1) :
            cmp_send_data_payloads(sorted[i], sorted[i + 1]) # "Greater"}

\* Vec::dedup_by with the closure of merge: an element that compares equal to
\* the last one kept is dropped after its chunks are moved to that one
RECURSIVE dedup_by_moving_chunks(_, _, _)
dedup_by_moving_chunks(v, i, kept) ==
    IF i > Len(v)
    THEN kept
    ELSE IF kept # <<>> /\ cmp_send_data_payloads(v[i], kept[Len(kept)]) = "Equal"
         THEN dedup_by_moving_chunks(v, i + 1,
                  [kept EXCEPT ![Len(kept)].chunks = @ \o v[i].chunks])
         ELSE dedup_by_moving_chunks(v, i + 1, Append(kept, v[i]))

\* TracerPayloadCollection::append; other is drained when the types match
TracerPayloadCollection_append(c, other) ==
    IF c.encoding = other.encoding
    THEN [c EXCEPT !.payloads = @ \o other.payloads]
    ELSE c

\* merge that drops the payloads that repeat their neighbour without sorting
TracerPayloadCollection_merge_unsorted(c) ==
    IF c.encoding = "V07"
    THEN {[c EXCEPT !.payloads = dedup_by_moving_chunks(c.payloads, 1, <<>>)]}
    ELSE {c}

\* TracerPayloadCollection::merge: the collections it can leave
TracerPayloadCollection_merge(c) ==
    IF c.encoding = "V07"
    THEN {[c EXCEPT !.payloads = dedup_by_moving_chunks(sorted, 1, <<>>)] :
             sorted \in sort_unstable_by(c.payloads)}
    ELSE {c}

RECURSIVE sum_chunks(_, _)
sum_chunks(payloads, i) ==
    IF i > Len(payloads) THEN 0 ELSE Len(payloads[i].chunks) + sum_chunks(payloads, i + 1)

\* TracerPayloadCollection::size
TracerPayloadCollection_size(c) ==
    IF c.encoding = "V07" THEN sum_chunks(c.payloads, 1) ELSE Len(c.payloads)

\* pb::TracerPayload::default() with chunks
DefaultPayload(chunks) ==
    [container_id |-> "", language_name |-> "", language_version |-> "",
     tracer_version |-> "", runtime_id |-> "", chunks |-> chunks,
     tags |-> <<>>, env |-> "", hostname |-> "", app_version |-> ""]

\* the V07 payloads that arrive: two from one origin that differ in their tags,
\* and two from other origins
V07Payloads ==
    {DefaultPayload(<<"a1">>),
     [DefaultPayload(<<"a2", "a3">>) EXCEPT !.tags = <<"t">>],
     [DefaultPayload(<<"b1">>) EXCEPT !.env = "prod", !.language_name = "php"],
     [DefaultPayload(<<"c1">>) EXCEPT !.env = "staging", !.tracer_version = "1.0"]}

\* the collections passed to append
OtherCollections ==
    {[encoding |-> "V07", payloads |-> <<p>>] : p \in V07Payloads}
        \cup {[encoding |-> "V07", payloads |-> <<>>],
              [encoding |-> "V04", payloads |-> <<<<"span1">>>>],
              [encoding |-> "V04", payloads |-> <<<<"span2", "span3">>>>]}

PayloadInit ==
    /\ collection \in {[encoding |-> "V07", payloads |-> <<>>],
                        [encoding |-> "V04", payloads |-> <<>>]}
    /\ call = [op |-> "new"]
    /\ result = [ok |-> TRUE]
    /\ host = None
    /\ profile = None
    /\ history = <<>>
    /\ twin = None
    /\ storage = None
    /\ profile_builder = None
    /\ interning = None
    /\ vec = None
    /\ flusher = None
    /\ sidecar = None
    /\ transport = None

PayloadAppend(other) ==
    /\ Len(collection.payloads) < MaxPayloads
    /\ TracerPayloadCollection_size(collection) < MaxPayloads
    /\ collection' = TracerPayloadCollection_append(collection, other)
    /\ call' = [op |-> "append", other |-> other]
    /\ result' = [ok |-> TRUE]
    /\ UNCHANGED <<host, profile, history, twin, crateVars>>

PayloadMerge ==
    /\ collection' \in TracerPayloadCollection_merge(collection)
    /\ call' = [op |-> "merge"]
    /\ result' = [ok |-> TRUE, size |-> TracerPayloadCollection_size(collection')]
    /\ UNCHANGED <<host, profile, history, twin, crateVars>>

PayloadNext ==
    \/ \E other \in OtherCollections : PayloadAppend(other)
    \/ PayloadMerge

PayloadSpec == PayloadInit /\ [][PayloadNext]_vars

-----------------------------------------------------------------------------
(* The v2 tables: profiling/src/profile/v2/profile_storage.rs and           *)
(* profile_set.rs.  Function, Location and Mapping compare and hash on      *)
(* every field but id (pprof.rs, derivative "ignore").                      *)

\* derived PartialEq of Function, Location and Mapping: all fields but id
eq_ignoring_id(a, b) == [a EXCEPT !.id = 0] = [b EXCEPT !.id = 0]

\* IndexSet::insert_full under that equality: the 0-based index of the equal element if there is
\* one (the stored element is kept), else the value goes at the end
insert_full_ignoring_id(set, value) ==
    IF \E i \in 1..Len(set) : eq_ignoring_id(set[i], value)
    THEN [set |-> set,
          index |-> (CHOOSE i \in 1..Len(set) : eq_ignoring_id(set[i], value)) - 1,
          inserted |-> FALSE]
    ELSE [set |-> Append(set, value), index |-> Len(set), inserted |-> TRUE]

index_to_id(index) == index + 1

ProfileStorage_add(set, value) ==
    Bind(insert_full_ignoring_id(set, value),
         LAMBDA r : [set |-> r.set, id |-> index_to_id(r.index)])

\* add_function without adjusting the id before the insertion
ProfileStorage_add_function_keeping_id(s, function) ==
    Bind(ProfileStorage_add(s.functions, function),
         LAMBDA r : [storage |-> [s EXCEPT !.functions = r.set], id |-> r.id])

ProfileStorage_add_function(s, function) ==
    Bind(ProfileStorage_add(s.functions,
                            [function EXCEPT !.id = index_to_id(Len(s.functions))]),
         LAMBDA r : [storage |-> [s EXCEPT !.functions = r.set], id |-> r.id])

ProfileStorage_add_location(s, location) ==
    Bind(ProfileStorage_add(s.locations,
                            [location EXCEPT !.id = index_to_id(Len(s.locations))]),
         LAMBDA r : [storage |-> [s EXCEPT !.locations = r.set], id |-> r.id])

ProfileStorage_add_mapping(s, mapping) ==
    Bind(ProfileStorage_add(s.mappings,
                            [mapping EXCEPT !.id = index_to_id(Len(s.mappings))]),
         LAMBDA r : [storage |-> [s EXCEPT !.mappings = r.set], id |-> r.id])

\* ProfileSet::add, for a T whose set_id stores the id and whose equality
\* ignores it
ProfileSet_add(s, value) ==
    Bind(insert_full_ignoring_id(s.set, [value EXCEPT !.id = Len(s.set) + 1]),
         LAMBDA r : [storage |-> [s EXCEPT !.set = r.set], id |-> r.index + 1])

\* ProfileStorage::new and ProfileSet::default
ProfileStorage_new ==
    [functions |-> <<>>, locations |-> <<>>, mappings |-> <<>>, set |-> <<>>]

V2Function(id, name) ==
    [id |-> id, name |-> name, system_name |-> name, filename |-> 1, start_line |-> 0]

V2Location(id, address) ==
    [id |-> id, mapping_id |-> 1, address |-> address,
     lines |-> <<[function_id |-> 1, line_number |-> address]>>, is_folded |-> FALSE]

V2Mapping(id, memory_start) ==
    [id |-> id, memory_start |-> memory_start, memory_limit |-> memory_start + 1,
     file_offset |-> 0, filename |-> 1, build_id |-> 0, has_functions |-> TRUE,
     has_filenames |-> FALSE, has_line_numbers |-> FALSE, has_inline_frames |-> FALSE]

\* the entities the callers pass, with the ids the callers left in them
V2Functions == {V2Function(0, 2), V2Function(9, 2), V2Function(0, 3), V2Function(1, 3)}

V2Locations == {V2Location(0, 4), V2Location(7, 4), V2Location(0, 5), V2Location(2, 5)}

V2Mappings == {V2Mapping(0, 6), V2Mapping(3, 6), V2Mapping(0, 8), V2Mapping(1, 8)}

StorageInit ==
    /\ storage = ProfileStorage_new
    /\ call = [op |-> "new"]
    /\ result = [ok |-> TRUE]
    /\ host = None
    /\ profile = None
    /\ history = <<>>
    /\ twin = None
    /\ collection = None
    /\ profile_builder = None
    /\ interning = None
    /\ vec = None
    /\ flusher = None
    /\ sidecar = None
    /\ transport = None

StorageAddFunction(function) ==
    /\ \E r \in {ProfileStorage_add_function(storage, function)} :
           /\ storage' = r.storage
           /\ result' = [id |-> r.id]
    /\ call' = [op |-> "add_function", value |-> function]
    /\ UNCHANGED <<profileVars, profile_builder, interning, vec, flusher, sidecar, transport>>

StorageAddLocation(location) ==
    /\ \E r \in {ProfileStorage_add_location(storage, location)} :
           /\ storage' = r.storage
           /\ result' = [id |-> r.id]
    /\ call' = [op |-> "add_location", value |-> location]
    /\ UNCHANGED <<profileVars, profile_builder, interning, vec, flusher, sidecar, transport>>

StorageAddMapping(mapping) ==
    /\ \E r \in {ProfileStorage_add_mapping(storage, mapping)} :
           /\ storage' = r.storage
           /\ result' = [id |-> r.id]
    /\ call' = [op |-> "add_mapping", value |-> mapping]
    /\ UNCHANGED <<profileVars, profile_builder, interning, vec, flusher, sidecar, transport>>

ProfileSetAdd(value) ==
    /\ \E r \in {ProfileSet_add(storage, value)} :
           /\ storage' = r.storage
           /\ result' = [id |-> r.id]
    /\ call' = [op |-> "ProfileSet::add", value |-> value]
    /\ UNCHANGED <<profileVars, profile_builder, interning, vec, flusher, sidecar, transport>>

StorageNext ==
    \/ \E function \in V2Functions : StorageAddFunction(function)
    \/ \E location \in V2Locations : StorageAddLocation(location)
    \/ \E mapping \in V2Mappings : StorageAddMapping(mapping)
    \/ \E value \in V2Functions : ProfileSetAdd(value)

StorageSpec == StorageInit /\ [][StorageNext]_vars

-----------------------------------------------------------------------------
(* The v2 string table: profiling/src/profile/v2/string_table.rs *)

\* StringTable::new: the empty string is at index 0
StringTable_new == <<"">>

\* StringTable::intern without the lookup: every string is appended
StringTable_intern_no_lookup(set, string) ==
    [set |-> Append(set, string), id |-> Len(set)]

\* StringTable::intern: get_full, else insert_full; returns the 0-based index
StringTable_intern(set, string) ==
    Bind(get_index_of(set, string), LAMBDA found :
        IF found >= 0
        THEN [set |-> set, id |-> found]
        ELSE [set |-> Append(set, string), id |-> Len(set)])

\* StringTable::strings
StringTable_strings(set) == set

-----------------------------------------------------------------------------
(* The v2 builder: profiling/src/profile/v2/mod.rs.  A Duration is a       *)
(* number of nanoseconds >= 0; a panic is the outcome [panic |-> TRUE].     *)

\* bound on the values one breakdown of a sample collects
MaxBreakdown == 3

\* Label::str
Label_str(key, str) == [key |-> key, str |-> str, num |-> 0, num_unit |-> 0]

\* ProfileBuilder::new; the two label names are interned under one lock
ProfileBuilder_new(string_table, sample_types, samples, label_sets, start_time, duration, period) ==
    Bind(StringTable_intern(string_table, "local root span id"), LAMBDA span :
    Bind(StringTable_intern(span.set, "trace endpoint"), LAMBDA endpoint :
        [string_table |-> endpoint.set,
         sample_types |-> sample_types,
         samples |-> samples,
         label_sets |-> label_sets,
         start_time |-> start_time,
         duration |-> duration,
         period_type |-> IF period = None THEN None ELSE Some(period[1].value_type),
         period |-> IF period = None THEN 0 ELSE period[1].value,
         endpoints |-> [mappings |-> <<>>,
                        local_root_span_id_label |-> span.id,
                        endpoint_label |-> endpoint.id]]))

\* ProfileBuilder::add_label_set
ProfileBuilder_add_label_set(b, label_set) ==
    IF label_set.labels = <<>>
    THEN [builder |-> b, id |-> 0]
    ELSE Bind(insert_full_ignoring_id(b.label_sets,
                  [label_set EXCEPT !.id = index_to_id(Len(b.label_sets))]),
              LAMBDA r : [builder |-> [b EXCEPT !.label_sets = r.set],
                          id |-> index_to_id(r.index)])

\* aggr.ticks.extend(new.ticks) and the same for values and label_set_ids
Breakdown_extend(aggr, new) ==
    [ticks |-> aggr.ticks \o new.ticks,
     values |-> aggr.values \o new.values,
     label_set_ids |-> aggr.label_set_ids \o new.label_set_ids]

\* existing_values.iter_mut().zip(breakdowns): pairs up to the shorter length
zip_extend(existing_values, breakdowns) ==
    [i \in 1..Len(existing_values) |->
        IF i <= Len(breakdowns)
        THEN Breakdown_extend(existing_values[i], breakdowns[i])
        ELSE existing_values[i]]

\* add_sample that extends only the first breakdown of a repeated key
ProfileBuilder_add_sample_first_only(b, sample, breakdowns) ==
    IF Len(b.sample_types) # Len(breakdowns)
    THEN [builder |-> b, ok |-> FALSE]
    ELSE Bind(map_get_index_of(b.samples, sample), LAMBDA index :
            IF index < 0
            THEN [builder |-> [b EXCEPT !.samples =
                                   Append(@, [key |-> sample, value |-> breakdowns])],
                  ok |-> TRUE]
            ELSE [builder |-> [b EXCEPT !.samples[index + 1].value =
                                   zip_extend(@, SubSeq(breakdowns, 1, 1))],
                  ok |-> TRUE])

\* ProfileBuilder::add_sample
ProfileBuilder_add_sample(b, sample, breakdowns) ==
    IF Len(b.sample_types) # Len(breakdowns)
    THEN [builder |-> b, ok |-> FALSE]
    ELSE Bind(map_get_index_of(b.samples, sample), LAMBDA index :
            IF index < 0
            THEN [builder |-> [b EXCEPT !.samples =
                                   Append(@, [key |-> sample, value |-> breakdowns])],
                  ok |-> TRUE]
            ELSE [builder |-> [b EXCEPT !.samples[index + 1].value =
                                   zip_extend(@, breakdowns)],
                  ok |-> TRUE])

\* ProfileBuilder::add_endpoint (IndexMap::insert: a stored key keeps its
\* place and takes the new value)
ProfileBuilder_add_endpoint(b, local_root_span_id, endpoint) ==
    Bind(map_get_index_of(b.endpoints.mappings, local_root_span_id), LAMBDA index :
        IF index < 0
        THEN [b EXCEPT !.endpoints.mappings =
                  Append(@, [key |-> local_root_span_id, value |-> endpoint])]
        ELSE [b EXCEPT !.endpoints.mappings[index + 1].value = endpoint])

\* ProfileBuilder::duration_to_i64_nanos
duration_to_i64_nanos(duration) == Min(duration, I64_MAX)

\* ProfileBuilder::find_trace_endpoint_label: only the first label with the
\* span-id key is looked up
find_trace_endpoint_label(labels, endpoints) ==
    IF \E i \in 1..Len(labels) : labels[i].key = endpoints.local_root_span_id_label
    THEN Bind(labels[CHOOSE i \in 1..Len(labels) :
                        /\ labels[i].key = endpoints.local_root_span_id_label
                        /\ \A j \in 1..(i - 1) :
                               labels[j].key # endpoints.local_root_span_id_label],
              LAMBDA label :
                Bind(map_get_index_of(endpoints.mappings, label.str), LAMBDA index :
                    IF index < 0
                    THEN None
                    ELSE Some(Label_str(endpoints.endpoint_label,
                                        endpoints.mappings[index + 1].value))))
    ELSE None

\* Iterator::sum over the values of one breakdown
RECURSIVE sum_values(_, _)
sum_values(values, i) ==
    IF i > Len(values) THEN 0 ELSE values[i] + sum_values(values, i + 1)

\* ProfileBuilder::convert_samples_to_pprof
convert_samples_to_pprof(sample, breakdowns) ==
    [location_ids |-> sample.location_ids,
     values |-> [i \in 1..Len(breakdowns) |-> sum_values(breakdowns[i].values, 1)],
     labels |-> sample.labels,
     breakdowns |-> breakdowns]

\* labels, with the endpoint label pushed when the span id is registered
push_endpoint_label(labels, endpoints) ==
    Bind(find_trace_endpoint_label(labels, endpoints), LAMBDA label :
        IF label = None THEN labels ELSE Append(labels, label[1]))

\* ProfileBuilder::into_pprof
ProfileBuilder_into_pprof(b, profile_storage) ==
    [sample_types |-> b.sample_types,
     samples |->
        [i \in 1..Len(b.samples) |->
            IF b.endpoints.mappings # <<>>
            THEN convert_samples_to_pprof(
                     [b.samples[i].key EXCEPT !.labels =
                          push_endpoint_label(@, b.endpoints)],
                     b.samples[i].value)
            ELSE convert_samples_to_pprof(b.samples[i].key, b.samples[i].value)],
     mappings |-> profile_storage.mappings,
     locations |-> profile_storage.locations,
     functions |-> profile_storage.functions,
     string_table |-> StringTable_strings(b.string_table),
     drop_frames |-> 0,
     keep_frames |-> 0,
     time_nanos |-> duration_to_i64_nanos(IF b.start_time < 0 THEN 0 ELSE b.start_time),
     duration_nanos |-> duration_to_i64_nanos(b.duration),
     period_type |-> b.period_type,
     period |-> b.period,
     comment |-> <<>>,
     default_sample_type |-> 0,
     tick_unit |-> 0,
     label_sets |->
        [i \in 1..Len(b.label_sets) |->
            [b.label_sets[i] EXCEPT !.labels = push_endpoint_label(@, b.endpoints)]]]

\* ProfileBuilder::serialize; SystemTime::duration_since is an Err when the
\* argument is later than self, and unwrap panics on it
ProfileBuilder_serialize(b, profile_storage, end_time, duration) ==
    Bind(b.start_time, LAMBDA start :
    Bind(IF end_time < start THEN start ELSE end_time, LAMBDA end :
        IF duration = None /\ b.duration = 0 /\ end_time < start
        THEN [panic |-> TRUE, encoded |-> None]
        ELSE [panic |-> FALSE,
              encoded |-> Some([start |-> start, end |-> end,
                  buffer |-> ProfileBuilder_into_pprof(
                      [b EXCEPT !.duration =
                           IF duration # None THEN duration[1]
                           ELSE IF b.duration = 0 THEN end_time - start ELSE @],
                      profile_storage)])]))

V2ValueType(type, unit) == [type |-> type, unit |-> unit]

V2SampleKey(location_ids, labels) == [location_ids |-> location_ids, labels |-> labels]

Breakdown(v) == [ticks |-> <<v>>, values |-> <<v>>, label_set_ids |-> <<0>>]

\* the arguments of ProfileBuilder::new the callers use
BuilderArgs ==
    {[sample_types |-> <<V2ValueType(3, 4)>>, start_time |-> 5, duration |-> 0,
      period |-> None],
     [sample_types |-> <<V2ValueType(3, 4), V2ValueType(5, 6)>>, start_time |-> 5,
      duration |-> 0, period |-> Some([value_type |-> V2ValueType(5, 6), value |-> 1])],
     [sample_types |-> <<V2ValueType(3, 4), V2ValueType(5, 6)>>, start_time |-> -1,
      duration |-> 4, period |-> None]}

\* label keys 1 and 2 are the ids ProfileBuilder::new interned
V2SampleKeys ==
    {V2SampleKey(<<1>>, <<>>),
     V2SampleKey(<<1, 2>>, <<Label_str(1, 7)>>)}

V2Breakdowns ==
    {<<>>, <<Breakdown(1)>>, <<Breakdown(2)>>,
     <<Breakdown(1), Breakdown(3)>>, <<Breakdown(2), Breakdown(1)>>}

V2LabelSets ==
    {[id |-> 0, labels |-> <<>>],
     [id |-> 5, labels |-> <<Label_str(1, 7)>>]}

V2SerializeArgs ==
    {[end_time |-> 8, duration |-> None],
     [end_time |-> 2, duration |-> None],
     [end_time |-> 2, duration |-> Some(6)],
     [end_time |-> MaxI64 + 6, duration |-> None]}

BuilderInit ==
    /\ \E args \in BuilderArgs :
        /\ profile_builder = ProfileBuilder_new(StringTable_new, args.sample_types,
                                 <<>>, <<>>, args.start_time, args.duration, args.period)
        /\ call = [op |-> "new", args |-> args]
    /\ result = [ok |-> TRUE]
    /\ host = None
    /\ profile = None
    /\ history = <<>>
    /\ twin = None
    /\ collection = None
    /\ storage = ProfileStorage_new
    /\ interning = None
    /\ vec = None
    /\ flusher = None
    /\ sidecar = None
    /\ transport = None

\* the values a repeated key would hold after the call stay within the bound
WithinBreakdown(sample, breakdowns) ==
    \A i \in 1..Len(profile_builder.samples) :
        profile_builder.samples[i].key = sample =>
            \A k \in 1..Len(profile_builder.samples[i].value) :
                Len(profile_builder.samples[i].value[k].values) < MaxBreakdown

BuilderAddSample(sample, breakdowns) ==
    /\ profile_builder # None
    /\ WithinBreakdown(sample, breakdowns)
    /\ \E r \in {ProfileBuilder_add_sample(profile_builder, sample, breakdowns)} :
           /\ profile_builder' = r.builder
           /\ result' = [ok |-> r.ok]
    /\ call' = [op |-> "add_sample", sample |-> sample, breakdowns |-> breakdowns]
    /\ UNCHANGED <<profileVars, storage, interning, vec, flusher, sidecar, transport>>

BuilderAddLabelSet(label_set) ==
    /\ profile_builder # None
    /\ \E r \in {ProfileBuilder_add_label_set(profile_builder, label_set)} :
           /\ profile_builder' = r.builder
           /\ result' = [id |-> r.id]
    /\ call' = [op |-> "add_label_set", label_set |-> label_set]
    /\ UNCHANGED <<profileVars, storage, interning, vec, flusher, sidecar, transport>>

BuilderAddEndpoint(local_root_span_id, endpoint) ==
    /\ profile_builder # None
    /\ profile_builder' =
           ProfileBuilder_add_endpoint(profile_builder, local_root_span_id, endpoint)
    /\ call' = [op |-> "add_endpoint", local_root_span_id |-> local_root_span_id,
                endpoint |-> endpoint]
    /\ result' = [ok |-> TRUE]
    /\ UNCHANGED <<profileVars, storage, interning, vec, flusher, sidecar, transport>>

\* serialize takes the builder by value: it is gone afterwards
BuilderSerialize(end_time, duration) ==
    /\ profile_builder # None
    /\ result' = ProfileBuilder_serialize(profile_builder, storage, end_time, duration)
    /\ profile_builder' = None
    /\ call' = [op |-> "serialize", end_time |-> end_time, duration |-> duration]
    /\ UNCHANGED <<profileVars, storage, interning, vec, flusher, sidecar, transport>>

BuilderNext ==
    \/ \E sample \in V2SampleKeys, breakdowns \in V2Breakdowns :
           BuilderAddSample(sample, breakdowns)
    \/ \E label_set \in V2LabelSets : BuilderAddLabelSet(label_set)
    \/ BuilderAddEndpoint(7, 8)
    \/ \E args \in V2SerializeArgs : BuilderSerialize(args.end_time, args.duration)

BuilderSpec == BuilderInit /\ [][BuilderNext]_vars

-----------------------------------------------------------------------------
(* Threads on one shared LockedStringTable (v2/string_table.rs) and one     *)
(* LockedProfileStorage (v2/profile_storage.rs).  A std Mutex is free       *)
(* (None) or held by one thread (Some(t)); lock() blocks while it is held,  *)
(* also when the holder is the caller itself.                               *)

\* bound on the operations one thread runs
MaxThreadOps == 2

Threads == {"t1", "t2"}

\* what a thread runs: the strings it interns under one guard, whether it
\* reads the strings under the guard, and whether it works on a
\* &ProfileStorage borrowed from a LockedProfileStorage guard
Programs ==
    {[op |-> "ProfileBuilder::new", storage |-> FALSE, read |-> FALSE,
      todo |-> <<"local root span id", "trace endpoint">>],
     [op |-> "intern", storage |-> FALSE, read |-> FALSE,
      todo |-> <<"cpu-time", "trace endpoint">>],
     [op |-> "intern", storage |-> FALSE, read |-> FALSE,
      todo |-> <<"wall-time", "cpu-time", "">>],
     [op |-> "LockedStringTable::strings", storage |-> FALSE, read |-> TRUE,
      todo |-> <<>>],
     [op |-> "ProfileBuilder::into_pprof", storage |-> TRUE, read |-> TRUE,
      todo |-> <<>>]}

InternInit ==
    /\ interning =
        [string_table |-> [set |-> StringTable_new, guard |-> None],
         storage |-> [guard |-> None],
         threads |-> [t \in Threads |->
                         [pc |-> "idle", op |-> "", todo |-> <<>>, read |-> FALSE,
                          storage |-> FALSE, strings |-> None, ops |-> 0]],
         handed |-> {}]
    /\ call = [op |-> "new"]
    /\ result = [ok |-> TRUE]
    /\ host = None
    /\ profile = None
    /\ history = <<>>
    /\ twin = None
    /\ collection = None
    /\ storage = None
    /\ profile_builder = None
    /\ vec = None
    /\ flusher = None
    /\ sidecar = None
    /\ transport = None

\* a thread starts one of the programs
InternBegin(t, program) ==
    /\ interning.threads[t].pc = "idle"
    /\ interning.threads[t].ops < MaxThreadOps
    /\ interning' = [interning EXCEPT !.threads[t] =
           [@ EXCEPT !.pc = IF program.storage THEN "lock storage" ELSE "lock strings",
                     !.op = program.op,
                     !.todo = program.todo,
                     !.read = program.read,
                     !.storage = FALSE,
                     !.strings = None]]
    /\ call' = [op |-> "begin", thread |-> t, program |-> program.op]
    /\ result' = [ok |-> TRUE]
    /\ UNCHANGED <<profileVars, storage, profile_builder, vec, flusher, sidecar, transport>>

\* LockedProfileStorage::lock, by the caller of into_pprof
LockStorage(t) ==
    /\ interning.threads[t].pc = "lock storage"
    /\ interning.storage.guard = None
    /\ interning' = [interning EXCEPT !.storage.guard = Some(t),
                                      !.threads[t].pc = "lock strings",
                                      !.threads[t].storage = TRUE]
    /\ call' = [op |-> "LockedProfileStorage::lock", thread |-> t]
    /\ result' = [ok |-> TRUE]
    /\ UNCHANGED <<profileVars, storage, profile_builder, vec, flusher, sidecar, transport>>

\* LockedStringTable::lock
LockStrings(t) ==
    /\ interning.threads[t].pc = "lock strings"
    /\ interning.string_table.guard = None
    /\ interning' = [interning EXCEPT !.string_table.guard = Some(t),
                                      !.threads[t].pc = "locked"]
    /\ call' = [op |-> "LockedStringTable::lock", thread |-> t]
    /\ result' = [ok |-> TRUE]
    /\ UNCHANGED <<profileVars, storage, profile_builder, vec, flusher, sidecar, transport>>

\* lock.intern(string), under the guard
Intern(t) ==
    /\ interning.threads[t].pc = "locked"
    /\ interning.threads[t].todo # <<>>
    /\ \E string \in {Head(interning.threads[t].todo)} :
       \E r \in {StringTable_intern(interning.string_table.set, string)} :
           /\ interning' = [interning EXCEPT
                  !.string_table.set = r.set,
                  !.threads[t].todo = Tail(@),
                  !.handed = @ \cup {[thread |-> t, string |-> string, id |-> r.id]}]
           /\ call' = [op |-> "intern", thread |-> t, string |-> string]
           /\ result' = [id |-> r.id]
    /\ UNCHANGED <<profileVars, storage, profile_builder, vec, flusher, sidecar, transport>>

\* lock.strings(), under the guard
Strings(t) ==
    /\ interning.threads[t].pc = "locked"
    /\ interning.threads[t].todo = <<>>
    /\ interning.threads[t].read
    /\ interning' = [interning EXCEPT
           !.threads[t].strings = Some(StringTable_strings(interning.string_table.set)),
           !.threads[t].read = FALSE]
    /\ call' = [op |-> "strings", thread |-> t]
    /\ result' = [strings |-> StringTable_strings(interning.string_table.set)]
    /\ UNCHANGED <<profileVars, storage, profile_builder, vec, flusher, sidecar, transport>>

\* drop(lock): the guard of the string table is released
DropStrings(t) ==
    /\ interning.threads[t].pc = "locked"
    /\ interning.threads[t].todo = <<>>
    /\ ~interning.threads[t].read
    /\ interning' = [interning EXCEPT
           !.string_table.guard = None,
           !.threads[t].pc = IF interning.threads[t].storage
                             THEN "unlock storage" ELSE "idle",
           !.threads[t].ops = IF interning.threads[t].storage THEN @ ELSE @ + 1]
    /\ call' = [op |-> "drop", thread |-> t]
    /\ result' = [ok |-> TRUE]
    /\ UNCHANGED <<profileVars, storage, profile_builder, vec, flusher, sidecar, transport>>

\* into_pprof has returned and the caller drops its storage guard
DropStorage(t) ==
    /\ interning.threads[t].pc = "unlock storage"
    /\ interning' = [interning EXCEPT
           !.storage.guard = None,
           !.threads[t].pc = "idle",
           !.threads[t].storage = FALSE,
           !.threads[t].ops = @ + 1]
    /\ call' = [op |-> "drop storage", thread |-> t]
    /\ result' = [ok |-> TRUE]
    /\ UNCHANGED <<profileVars, storage, profile_builder, vec, flusher, sidecar, transport>>

InternNext ==
    \/ \E t \in Threads, program \in Programs : InternBegin(t, program)
    \/ \E t \in Threads : LockStorage(t)
    \/ \E t \in Threads : LockStrings(t)
    \/ \E t \in Threads : Intern(t)
    \/ \E t \in Threads : Strings(t)
    \/ \E t \in Threads : DropStrings(t)
    \/ \E t \in Threads : DropStorage(t)

InternSpec == InternInit /\ [][InternNext]_vars

-----------------------------------------------------------------------------
(* The C-compatible vector: ddcommon-ffi/src/vec.rs.  The allocation ptr    *)
(* points to is the sequence `buffer` of its initialised elements.          *)

\* bound on the length of the vector
MaxLen == 4

VecElements == {0, 1, 2}

\* impl From<alloc::vec::Vec<T>> for Vec<T>, for a std Vec with the given
\* elements and capacity
Vec_from(elements, capacity) ==
    [buffer |-> elements, len |-> Len(elements), capacity |-> capacity]

\* the capacities alloc::vec::Vec::push may leave: unchanged while there is
\* room, otherwise grown by an amount the allocator strategy decides
grown_capacities(len, capacity) ==
    IF len < capacity THEN {capacity} ELSE {len + 1, 2 * (len + 1)}

\* Vec::push: from_raw_parts, push, replace
Vec_push(v, value) ==
    {[buffer |-> Append(v.buffer, value), len |-> v.len + 1, capacity |-> c] :
        c \in grown_capacities(v.len, v.capacity)}

\* Vec::len
Vec_len(v) == v.len

\* Vec::is_empty
Vec_is_empty(v) == v.len > 0

\* Vec::last
Vec_last(v) == IF v.len = 0 THEN None ELSE Some(v.buffer[(v.len - 1) + 1])

\* Vec::get
Vec_get(v, index) == IF index >= v.len THEN None ELSE Some(v.buffer[index + 1])

\* the std Vecs callers convert: Vec::new() (Default) and vec![..] literals
StdVecs ==
    {[elements |-> <<>>, capacity |-> 0],
     [elements |-> <<0>>, capacity |-> 1],
     [elements |-> <<0, 2>>, capacity |-> 4]}

VecInit ==
    /\ \E std \in StdVecs :
        /\ vec = Vec_from(std.elements, std.capacity)
        /\ call = [op |-> "from", vec |-> std]
    /\ result = [ok |-> TRUE]
    /\ host = None
    /\ profile = None
    /\ history = <<>>
    /\ twin = None
    /\ collection = None
    /\ storage = None
    /\ profile_builder = None
    /\ interning = None
    /\ flusher = None
    /\ sidecar = None
    /\ transport = None

VecFrom(std) ==
    /\ vec' = Vec_from(std.elements, std.capacity)
    /\ call' = [op |-> "from", vec |-> std]
    /\ result' = [ok |-> TRUE]
    /\ UNCHANGED <<profileVars, storage, profile_builder, interning, flusher, sidecar, transport>>

VecPush(value) ==
    /\ vec.len < MaxLen
    /\ vec' \in Vec_push(vec, value)
    /\ call' = [op |-> "push", value |-> value]
    /\ result' = [ok |-> TRUE]
    /\ UNCHANGED <<profileVars, storage, profile_builder, interning, flusher, sidecar, transport>>

VecNext ==
    \/ \E std \in StdVecs : VecFrom(std)
    \/ \E value \in VecElements : VecPush(value)

VecSpec == VecInit /\ [][VecNext]_vars

-----------------------------------------------------------------------------
(* The trace flusher: trace-mini-agent/src/trace_flusher.rs.  Two tokio     *)
(* tasks share buffer: Arc<Mutex<Vec<SendData>>>: the spawned task moves     *)
(* payloads from the channel into the buffer, the loop of                   *)
(* start_trace_flusher flushes the buffer after every sleep.  tokio's Mutex *)
(* is fair: lock() calls are served in the order they were made, which is   *)
(* the queue `waiters`.  Payloads are told apart by a number.               *)

\* bound on the payloads the tracers send
MaxTraces == 3

\* Vec::clear that leaves the elements in place
buffer_clear_keeping(buffer) == buffer

\* Vec::clear
buffer_clear(buffer) == <<>>

\* Vec::to_vec
buffer_to_vec(buffer) == buffer

\* who may take the Mutex: the first in the queue, when the guard is free
MayAcquire(task) ==
    /\ flusher.guard = None
    /\ flusher.waiters # <<>>
    /\ Head(flusher.waiters) = task

FlusherInit ==
    /\ flusher =
        [channel |-> <<>>, closed |-> FALSE, sent |-> 0,
         buffer |-> <<>>, guard |-> None, waiters |-> <<>>,
         producer |-> [pc |-> "recv", tracer_payload |-> None],
         consumer |-> [pc |-> "sleep", traces |-> <<>>],
         received |-> <<>>, flushed |-> <<>>, failed |-> {}]
    /\ call = [op |-> "start_trace_flusher"]
    /\ result = [ok |-> TRUE]
    /\ host = None
    /\ profile = None
    /\ history = <<>>
    /\ twin = None
    /\ collection = None
    /\ storage = None
    /\ profile_builder = None
    /\ interning = None
    /\ vec = None
    /\ sidecar = None
    /\ transport = None

\* a tracer sends a payload into the channel
ChannelSend ==
    /\ ~flusher.closed
    /\ flusher.sent < MaxTraces
    /\ flusher' = [flusher EXCEPT !.channel = Append(@, flusher.sent + 1),
                                  !.sent = @ + 1]
    /\ call' = [op |-> "tx.send", payload |-> flusher.sent + 1]
    /\ result' = [ok |-> TRUE]
    /\ UNCHANGED <<profileVars, storage, profile_builder, interning, vec, sidecar, transport>>

\* every sender is dropped
ChannelClose ==
    /\ ~flusher.closed
    /\ flusher' = [flusher EXCEPT !.closed = TRUE]
    /\ call' = [op |-> "drop(tx)"]
    /\ result' = [ok |-> TRUE]
    /\ UNCHANGED <<profileVars, storage, profile_builder, interning, vec, sidecar, transport>>

\* rx.recv().await returns Some(tracer_payload); the task then asks for the lock
ProducerRecv ==
    /\ flusher.producer.pc = "recv"
    /\ flusher.channel # <<>>
    /\ flusher' = [flusher EXCEPT
           !.channel = Tail(@),
           !.producer = [pc |-> "lock", tracer_payload |-> Some(Head(flusher.channel))],
           !.waiters = Append(@, "producer"),
           !.received = Append(@, Head(flusher.channel))]
    /\ call' = [op |-> "rx.recv", payload |-> Head(flusher.channel)]
    /\ result' = [ok |-> TRUE]
    /\ UNCHANGED <<profileVars, storage, profile_builder, interning, vec, sidecar, transport>>

\* rx.recv().await returns None: the while loop and the task end
ProducerEnd ==
    /\ flusher.producer.pc = "recv"
    /\ flusher.channel = <<>>
    /\ flusher.closed
    /\ flusher' = [flusher EXCEPT !.producer.pc = "done"]
    /\ call' = [op |-> "rx.recv", payload |-> 0]
    /\ result' = [ok |-> FALSE]
    /\ UNCHANGED <<profileVars, storage, profile_builder, interning, vec, sidecar, transport>>

\* buffer_producer.lock().await completes
ProducerLock ==
    /\ flusher.producer.pc = "lock"
    /\ MayAcquire("producer")
    /\ flusher' = [flusher EXCEPT !.guard = Some("producer"),
                                  !.waiters = Tail(@),
                                  !.producer.pc = "push"]
    /\ call' = [op |-> "buffer_producer.lock"]
    /\ result' = [ok |-> TRUE]
    /\ UNCHANGED <<profileVars, storage, profile_builder, interning, vec, sidecar, transport>>

\* buffer.push(tracer_payload); the guard is dropped at the end of the body
ProducerPush ==
    /\ flusher.producer.pc = "push"
    /\ flusher' = [flusher EXCEPT
           !.buffer = Append(@, flusher.producer.tracer_payload[1]),
           !.guard = None,
           !.producer = [pc |-> "recv", tracer_payload |-> None]]
    /\ call' = [op |-> "buffer.push", payload |-> flusher.producer.tracer_payload[1]]
    /\ result' = [ok |-> TRUE]
    /\ UNCHANGED <<profileVars, storage, profile_builder, interning, vec, sidecar, transport>>

\* tokio::time::sleep(..).await completes; the loop asks for the lock
ConsumerWake ==
    /\ flusher.consumer.pc = "sleep"
    /\ flusher' = [flusher EXCEPT !.consumer.pc = "lock",
                                  !.waiters = Append(@, "consumer")]
    /\ call' = [op |-> "sleep"]
    /\ result' = [ok |-> TRUE]
    /\ UNCHANGED <<profileVars, storage, profile_builder, interning, vec, sidecar, transport>>

\* buffer_consumer.lock().await completes
ConsumerLock ==
    /\ flusher.consumer.pc = "lock"
    /\ MayAcquire("consumer")
    /\ flusher' = [flusher EXCEPT !.guard = Some("consumer"),
                                  !.waiters = Tail(@),
                                  !.consumer.pc = "check"]
    /\ call' = [op |-> "buffer_consumer.lock"]
    /\ result' = [ok |-> TRUE]
    /\ UNCHANGED <<profileVars, storage, profile_builder, interning, vec, sidecar, transport>>

\* if !buffer.is_empty(): the copy is handed to flush_traces; otherwise the
\* guard is dropped and the loop sleeps again
ConsumerCheck ==
    /\ flusher.consumer.pc = "check"
    /\ flusher' =
        IF flusher.buffer # <<>>
        THEN [flusher EXCEPT
                 !.consumer = [pc |-> "flush", traces |-> buffer_to_vec(flusher.buffer)],
                 !.flushed = Append(@, buffer_to_vec(flusher.buffer))]
        ELSE [flusher EXCEPT !.consumer.pc = "sleep", !.guard = None]
    /\ call' = [op |-> "buffer.is_empty"]
    /\ result' = [is_empty |-> flusher.buffer = <<>>]
    /\ UNCHANGED <<profileVars, storage, profile_builder, interning, vec, sidecar, transport>>

\* flush_traces(traces).await: every send is an Ok or an Err, which is logged
FlushTraces(errors) ==
    /\ flusher.consumer.pc = "flush"
    /\ flusher.consumer.traces # <<>>
    /\ flusher' = [flusher EXCEPT !.consumer.pc = "clear",
                                  !.failed = @ \cup errors]
    /\ call' = [op |-> "flush_traces", traces |-> flusher.consumer.traces]
    /\ result' = [errors |-> errors]
    /\ UNCHANGED <<profileVars, storage, profile_builder, interning, vec, sidecar, transport>>

\* buffer.clear(); the guard is dropped at the end of the loop body
ConsumerClear ==
    /\ flusher.consumer.pc = "clear"
    /\ flusher' = [flusher EXCEPT
           !.buffer = buffer_clear(@),
           !.guard = None,
           !.consumer = [pc |-> "sleep", traces |-> <<>>]]
    /\ call' = [op |-> "buffer.clear"]
    /\ result' = [ok |-> TRUE]
    /\ UNCHANGED <<profileVars, storage, profile_builder, interning, vec, sidecar, transport>>

FlusherNext ==
    \/ ChannelSend
    \/ ChannelClose
    \/ ProducerRecv
    \/ ProducerEnd
    \/ ProducerLock
    \/ ProducerPush
    \/ ConsumerWake
    \/ ConsumerLock
    \/ ConsumerCheck
    \/ \E errors \in SUBSET {flusher.consumer.traces[i] :
                              i \in 1..Len(flusher.consumer.traces)} :
           FlushTraces(errors)
    \/ ConsumerClear

FlusherSpec == FlusherInit /\ [][FlusherNext]_vars

\* the tokio runtime keeps polling both tasks and the timer fires
FairFlusherSpec ==
    /\ FlusherSpec
    /\ WF_vars(ProducerRecv)
    /\ WF_vars(ProducerLock)
    /\ WF_vars(ProducerPush)
    /\ WF_vars(ConsumerWake)
    /\ WF_vars(ConsumerLock)
    /\ WF_vars(ConsumerCheck)
    /\ WF_vars(\E errors \in SUBSET (1..MaxTraces) : FlushTraces(errors))
    /\ WF_vars(ConsumerClear)

-----------------------------------------------------------------------------
(* The sidecar main loop: sidecar/src/unix.rs.  The runtime is              *)
(* new_current_thread, so a task runs from one .await to the next without   *)
(* another task in between: each action below is such a stretch.            *)
(* `senders` holds the live senders of the shutdown channel: whether        *)
(* main_loop still has shutdown_complete_tx, and the connections whose task *)
(* still has its clone.                                                     *)

\* bound on the connections the listener accepts
MaxConns == 3

\* idle checks without a connection after which the linger time has elapsed
MaxIdle == 2

\* AtomicI32::fetch_add
fetch_add(counter, delta) == counter + delta

\* a receiver that completes as soon as main_loop has dropped its sender
recv_completes_without_main(senders) == ~senders.main

\* shutdown_receiver.recv() completes: nothing is ever sent, so it returns
\* (None) only when every sender is dropped
recv_completes(senders) == ~senders.main /\ senders.clones = {}

SidecarInit ==
    /\ \E self_telemetry \in BOOLEAN :
        sidecar =
            [listener |-> "listening",
             counter |-> 0,
             accepted |-> 0,
             serving |-> {},
             senders |-> [main |-> TRUE, clones |-> {}],
             main |-> "accept",
             telemetry |-> IF self_telemetry THEN "select" ELSE "recv",
             watchdog |-> [running |-> TRUE, idle |-> 0],
             ctrl_c |-> FALSE]
    /\ call = [op |-> "main_loop"]
    /\ result = [ok |-> TRUE]
    /\ host = None
    /\ profile = None
    /\ history = <<>>
    /\ twin = None
    /\ collection = None
    /\ storage = None
    /\ profile_builder = None
    /\ interning = None
    /\ vec = None
    /\ flusher = None
    /\ transport = None

\* listener.accept() returns Ok: the counter is raised and the connection
\* task is spawned with its clones
Accept ==
    /\ sidecar.main = "accept"
    /\ sidecar.listener = "listening"
    /\ sidecar.accepted < MaxConns
    /\ sidecar' = [sidecar EXCEPT
           !.counter = fetch_add(@, 1),
           !.accepted = @ + 1,
           !.serving = @ \cup {sidecar.accepted + 1},
           !.senders.clones = @ \cup {sidecar.accepted + 1}]
    /\ call' = [op |-> "accept", connection |-> sidecar.accepted + 1]
    /\ result' = [ok |-> TRUE]
    /\ UNCHANGED <<profileVars, storage, profile_builder, interning, vec, flusher, transport>>

\* server.accept_connection(socket) is over: the counter is lowered and the
\* task's sender is dropped
ConnectionClosed(connection) ==
    /\ connection \in sidecar.serving
    /\ sidecar' = [sidecar EXCEPT
           !.counter = fetch_add(@, -1),
           !.serving = @ \ {connection},
           !.senders.clones = @ \ {connection}]
    /\ call' = [op |-> "connection closed", connection |-> connection]
    /\ result' = [ok |-> TRUE]
    /\ UNCHANGED <<profileVars, storage, profile_builder, interning, vec, flusher, transport>>

\* the idle task wakes from its sleep: a live connection restarts the linger
\* time, and once the time has run out the listener is cancelled
IdleCheck ==
    /\ sidecar.watchdog.running
    /\ \E idle \in {IF sidecar.counter > 0 THEN 0 ELSE sidecar.watchdog.idle + 1} :
        sidecar' =
            IF idle > MaxIdle
            THEN [sidecar EXCEPT !.watchdog = [running |-> FALSE, idle |-> idle],
                                 !.listener = "shutdown"]
            ELSE [sidecar EXCEPT !.watchdog.idle = idle]
    /\ call' = [op |-> "idle check", counter |-> sidecar.counter]
    /\ result' = [ok |-> TRUE]
    /\ UNCHANGED <<profileVars, storage, profile_builder, interning, vec, flusher, transport>>

\* tokio::signal::ctrl_c() completes and the task cancels the listener
CtrlC ==
    /\ ~sidecar.ctrl_c
    /\ sidecar' = [sidecar EXCEPT !.ctrl_c = TRUE, !.listener = "shutdown"]
    /\ call' = [op |-> "ctrl_c"]
    /\ result' = [ok |-> TRUE]
    /\ UNCHANGED <<profileVars, storage, profile_builder, interning, vec, flusher, transport>>

\* listener.accept() returns Err on the shut-down socket: the loop ends, the
\* last sender is dropped and main_loop awaits the telemetry task
AcceptFailed ==
    /\ sidecar.main = "accept"
    /\ sidecar.listener = "shutdown"
    /\ sidecar' = [sidecar EXCEPT !.senders.main = FALSE,
                                  !.main = "await telemetry"]
    /\ call' = [op |-> "accept"]
    /\ result' = [ok |-> FALSE]
    /\ UNCHANGED <<profileVars, storage, profile_builder, interning, vec, flusher, transport>>

\* the config future completes first in the select!: the telemetry worker is
\* spawned and the metrics loop starts, or the spawn fails and the task only
\* waits for the shutdown
TelemetryConfigured(spawned) ==
    /\ sidecar.telemetry = "select"
    /\ sidecar' = [sidecar EXCEPT !.telemetry = IF spawned THEN "loop" ELSE "recv"]
    /\ call' = [op |-> "spawn_with_config"]
    /\ result' = [ok |-> spawned]
    /\ UNCHANGED <<profileVars, storage, profile_builder, interning, vec, flusher, transport>>

\* interval.tick() in the metrics loop
TelemetryTick ==
    /\ sidecar.telemetry = "loop"
    /\ call' = [op |-> "interval.tick", counter |-> sidecar.counter]
    /\ result' = [ok |-> TRUE]
    /\ UNCHANGED sidecar
    /\ UNCHANGED <<profileVars, storage, profile_builder, interning, vec, flusher, transport>>

\* shutdown_receiver.recv() completes: outside the metrics loop the task
\* ends, inside it the task goes on to stop the worker
TelemetryShutdown ==
    /\ sidecar.telemetry \in {"select", "recv", "loop"}
    /\ recv_completes(sidecar.senders)
    /\ sidecar' = [sidecar EXCEPT
           !.telemetry = IF sidecar.telemetry = "loop" THEN "stopping" ELSE "done"]
    /\ call' = [op |-> "shutdown_receiver.recv"]
    /\ result' = [ok |-> TRUE]
    /\ UNCHANGED <<profileVars, storage, profile_builder, interning, vec, flusher, transport>>

\* the last metrics are sent, the worker is stopped and joined
TelemetryStopped ==
    /\ sidecar.telemetry = "stopping"
    /\ sidecar' = [sidecar EXCEPT !.telemetry = "done"]
    /\ call' = [op |-> "join_handle.await"]
    /\ result' = [ok |-> TRUE]
    /\ UNCHANGED <<profileVars, storage, profile_builder, interning, vec, flusher, transport>>

\* telemetry_handle.await completes; main_loop joins the trace flusher
TelemetryJoined ==
    /\ sidecar.main = "await telemetry"
    /\ sidecar.telemetry = "done"
    /\ sidecar' = [sidecar EXCEPT !.main = "join trace flusher"]
    /\ call' = [op |-> "telemetry_handle.await"]
    /\ result' = [ok |-> TRUE]
    /\ UNCHANGED <<profileVars, storage, profile_builder, interning, vec, flusher, transport>>

\* server.trace_flusher.join() completes and main_loop returns Ok(())
MainReturn ==
    /\ sidecar.main = "join trace flusher"
    /\ sidecar' = [sidecar EXCEPT !.main = "returned"]
    /\ call' = [op |-> "return"]
    /\ result' = [ok |-> TRUE]
    /\ UNCHANGED <<profileVars, storage, profile_builder, interning, vec, flusher, transport>>

SidecarNext ==
    \/ Accept
    \/ \E connection \in 1..MaxConns : ConnectionClosed(connection)
    \/ IdleCheck
    \/ CtrlC
    \/ AcceptFailed
    \/ \E spawned \in BOOLEAN : TelemetryConfigured(spawned)
    \/ TelemetryTick
    \/ TelemetryShutdown
    \/ TelemetryStopped
    \/ TelemetryJoined
    \/ MainReturn

SidecarSpec == SidecarInit /\ [][SidecarNext]_vars

\* the runtime keeps polling the telemetry task and main_loop
FairSidecarSpec ==
    /\ SidecarSpec
    /\ WF_vars(AcceptFailed)
    /\ WF_vars(TelemetryShutdown)
    /\ WF_vars(TelemetryStopped)
    /\ WF_vars(TelemetryJoined)
    /\ WF_vars(MainReturn)

-----------------------------------------------------------------------------
(* The blocking IPC transport: ipc/src/transport/blocking.rs.  The clones   *)
(* of a BlockingTransport share the request counter (Arc<AtomicU64>) and    *)
(* the channel; each runs in its own thread.  `outgoing` is what the peer   *)
(* has been sent, `incoming` the responses it has written and no clone has  *)
(* read yet, `issued` the request ids handed out so far and `reissued`      *)
(* whether one of them was handed out twice.                                *)

\* bound on the requests made over the transport
MaxRequests == 3

Clones == {"a", "b"}

\* AtomicU64::fetch_add(1, Relaxed): the previous value is returned
requests_id_fetch_add(requests_id) ==
    [requests_id |-> requests_id + 1, previous |-> requests_id]

\* BlockingTransport::new_client_message
new_client_message(requests_id, item, context) ==
    Bind(requests_id_fetch_add(requests_id), LAMBDA r :
        [requests_id |-> r.requests_id,
         request_id |-> r.previous,
         req |-> [context |-> context, id |-> r.previous, message |-> item]])

\* Context::current()
Context_current == [discard_response |-> FALSE]

\* a call that takes whatever response it reads first
response_is_any(resp, request_id) == TRUE

\* the test of call(): resp.request_id == request_id
response_is_mine(resp, request_id) == resp.request_id = request_id

\* resp.message.map_err(|e| io::Error::new(e.kind, e.detail))
map_err(message) ==
    IF message.ok
    THEN [ok |-> TRUE, value |-> message.value]
    ELSE [ok |-> FALSE, error |-> [kind |-> message.kind, detail |-> message.detail]]

\* the answers the peer gives to request id
PeerMessages(id) ==
    {[ok |-> TRUE, value |-> id],
     [ok |-> FALSE, kind |-> "Other", detail |-> "failed"]}

TransportInit ==
    /\ transport =
        [requests_id |-> 0,
         outgoing |-> <<>>,
         answered |-> {},
         incoming |-> <<>>,
         issued |-> {},
         reissued |-> FALSE,
         clones |-> [c \in Clones |->
                       [pc |-> "idle", op |-> "", request_id |-> 0, req |-> None,
                        discarded |-> <<>>, response |-> None, returned |-> None]]]
    /\ call = [op |-> "from"]
    /\ result = [ok |-> TRUE]
    /\ host = None
    /\ profile = None
    /\ history = <<>>
    /\ twin = None
    /\ collection = None
    /\ storage = None
    /\ profile_builder = None
    /\ interning = None
    /\ vec = None
    /\ flusher = None
    /\ sidecar = None

\* call(item) up to new_client_message
CallBegin(c, item) ==
    /\ transport.clones[c].pc = "idle"
    /\ transport.requests_id < MaxRequests
    /\ \E m \in {new_client_message(transport.requests_id, item, Context_current)} :
        transport' = [transport EXCEPT
            !.requests_id = m.requests_id,
            !.issued = @ \cup {m.request_id},
            !.reissued = @ \/ m.request_id \in transport.issued,
            !.clones[c] = [pc |-> "do_send", op |-> "call",
                           request_id |-> m.request_id, req |-> Some(m.req),
                           discarded |-> <<>>, response |-> None, returned |-> None]]
    /\ call' = [op |-> "call", clone |-> c, item |-> item]
    /\ result' = [ok |-> TRUE]
    /\ UNCHANGED <<profileVars, storage, profile_builder, interning, vec, flusher, sidecar>>

\* send(item) up to new_client_message, with ctx.discard_response = true
SendBegin(c, item) ==
    /\ transport.clones[c].pc = "idle"
    /\ transport.requests_id < MaxRequests
    /\ \E m \in {new_client_message(transport.requests_id, item,
                                    [Context_current EXCEPT !.discard_response = TRUE])} :
        transport' = [transport EXCEPT
            !.requests_id = m.requests_id,
            !.issued = @ \cup {m.request_id},
            !.reissued = @ \/ m.request_id \in transport.issued,
            !.clones[c] = [pc |-> "do_send", op |-> "send",
                           request_id |-> m.request_id, req |-> Some(m.req),
                           discarded |-> <<>>, response |-> None, returned |-> None]]
    /\ call' = [op |-> "send", clone |-> c, item |-> item]
    /\ result' = [ok |-> TRUE]
    /\ UNCHANGED <<profileVars, storage, profile_builder, interning, vec, flusher, sidecar>>

\* self.transport.do_send(req): the request is written, or the write fails
\* and the io::Error is returned; send returns here in both cases
DoSend(c, written) ==
    /\ transport.clones[c].pc = "do_send"
    /\ transport' = [transport EXCEPT
           !.outgoing = IF written THEN Append(@, transport.clones[c].req[1]) ELSE @,
           !.clones[c].pc = IF written /\ transport.clones[c].op = "call"
                            THEN "read_item" ELSE "idle",
           !.clones[c].returned =
               IF written /\ transport.clones[c].op = "call"
               THEN None
               ELSE Some([ok |-> written, io_error |-> ~written])]
    /\ call' = [op |-> "do_send", clone |-> c]
    /\ result' = [ok |-> written]
    /\ UNCHANGED <<profileVars, storage, profile_builder, interning, vec, flusher, sidecar>>

\* the peer answers a request that asks for a response
PeerRespond(i, message) ==
    /\ i \in 1..Len(transport.outgoing)
    /\ i \notin transport.answered
    /\ ~transport.outgoing[i].context.discard_response
    /\ transport' = [transport EXCEPT
           !.answered = @ \cup {i},
           !.incoming = Append(@, [request_id |-> transport.outgoing[i].id,
                                   message |-> message])]
    /\ call' = [op |-> "respond", request_id |-> transport.outgoing[i].id]
    /\ result' = [ok |-> message.ok]
    /\ UNCHANGED <<profileVars, storage, profile_builder, interning, vec, flusher, sidecar>>

\* one turn of `for resp in self`: read_item gives a response, which is
\* returned if it is the caller's and dropped otherwise
ReadItem(c) ==
    /\ transport.clones[c].pc = "read_item"
    /\ transport.incoming # <<>>
    /\ \E resp \in {Head(transport.incoming)} :
        /\ transport' =
            IF response_is_mine(resp, transport.clones[c].request_id)
            THEN [transport EXCEPT
                     !.incoming = Tail(@),
                     !.clones[c].pc = "idle",
                     !.clones[c].response = Some(resp),
                     !.clones[c].returned = Some(map_err(resp.message))]
            ELSE [transport EXCEPT
                     !.incoming = Tail(@),
                     !.clones[c].discarded = Append(@, resp.request_id)]
        /\ call' = [op |-> "read_item", clone |-> c]
        /\ result' = [ok |-> TRUE, response |-> resp]
    /\ UNCHANGED <<profileVars, storage, profile_builder, interning, vec, flusher, sidecar>>

\* read_item fails (`resp?`): call returns the io::Error
ReadFailed(c) ==
    /\ transport.clones[c].pc = "read_item"
    /\ transport' = [transport EXCEPT
           !.clones[c].pc = "idle",
           !.clones[c].returned = Some([ok |-> FALSE, io_error |-> TRUE])]
    /\ call' = [op |-> "read_item", clone |-> c]
    /\ result' = [ok |-> FALSE]
    /\ UNCHANGED <<profileVars, storage, profile_builder, interning, vec, flusher, sidecar>>

TransportNext ==
    \/ \E c \in Clones : CallBegin(c, "ping")
    \/ \E c \in Clones : SendBegin(c, "notify")
    \/ \E c \in Clones, written \in BOOLEAN : DoSend(c, written)
    \/ \E i \in 1..MaxRequests :
           \E message \in PeerMessages(i) : PeerRespond(i, message)
    \/ \E c \in Clones : ReadItem(c)
    \/ \E c \in Clones : ReadFailed(c)

TransportSpec == TransportInit /\ [][TransportNext]_vars

-----------------------------------------------------------------------------
(* What the calls of the current profile lifetime ask for, read off the    *)
(* history of calls, and the stored profile read back through its tables.  *)

\* position in history of the last reset that succeeded, 0 if none
LastReset ==
    LET resets == {i \in 1..Len(history) : history[i].op = "reset" /\ history[i].ok}
    IN  IF resets = {} THEN 0 ELSE CHOOSE i \in resets : \A j \in resets : j <= i

\* the calls made on the live profile since it was created or last reset
Lifetime == SubSeq(history, LastReset + 1, Len(history))

\* an add that passed the value-count check and did not end in FullError
IsAccepted(c) ==
    /\ c.op = "add"
    /\ Len(c.sample.values) = Len(profile.sample_types)
    /\ c.ok

AcceptedAdds == SelectSeq(Lifetime, IsAccepted)

IsAddEndpoint(c) == c.op = "add_endpoint"

EndpointCalls == SelectSeq(Lifetime, IsAddEndpoint)

\* a label as pprof carries it: an absent string is the empty string
PprofLabel(label) ==
    [key |-> label.key, str |-> unwrap_or(label.str, ""),
     num |-> label.num, num_unit |-> unwrap_or(label.num_unit, "")]

\* the key a sample asks to be aggregated under
KeyOf(sample) ==
    [locations |-> sample.locations,
     labels |-> [i \in 1..Len(sample.labels) |-> PprofLabel(sample.labels[i])]]

RECURSIVE FirstOccurrences(_, _, _)
FirstOccurrences(seq, i, acc) ==
    IF i > Len(seq)
    THEN acc
    ELSE FirstOccurrences(seq, i + 1,
             IF \E j \in 1..Len(acc) : acc[j] = seq[i] THEN acc ELSE Append(acc, seq[i]))

\* the distinct keys of the accepted adds, in order of their first add
KeysInOrder ==
    FirstOccurrences([i \in 1..Len(AcceptedAdds) |-> KeyOf(AcceptedAdds[i].sample)],
                     1, <<>>)

Position(seq, x) == CHOOSE i \in 1..Len(seq) : seq[i] = x

RECURSIVE SumAt(_, _, _, _)
SumAt(adds, key, k, i) ==
    IF i > Len(adds)
    THEN 0
    ELSE (IF KeyOf(adds[i].sample) = key THEN adds[i].sample.values[k] ELSE 0)
         + SumAt(adds, key, k, i + 1)

\* element-wise sum of the values of the accepted adds made with the key
SumFor(key) ==
    [k \in 1..Len(profile.sample_types) |-> SumAt(AcceptedAdds, key, k, 1)]

\* the string a StringId stands for in a string table
Str(strings, id) == strings[id + 1]

StoredMapping(p, id) ==
    LET m == p.mappings[id]
    IN  [memory_start |-> m.memory_start, memory_limit |-> m.memory_limit,
         file_offset |-> m.file_offset,
         filename |-> Str(p.strings, m.filename),
         build_id |-> Str(p.strings, m.build_id)]

StoredFunction(p, id) ==
    LET f == p.functions[id]
    IN  [name |-> Str(p.strings, f.name),
         system_name |-> Str(p.strings, f.system_name),
         filename |-> Str(p.strings, f.filename),
         start_line |-> f.start_line]

StoredLocation(p, id) ==
    LET l == p.locations[id]
    IN  [mapping |-> StoredMapping(p, l.mapping_id),
         address |-> l.address,
         lines |-> [i \in 1..Len(l.lines) |->
                       [function |-> StoredFunction(p, l.lines[i].function_id),
                        line |-> l.lines[i].line]],
         is_folded |-> l.is_folded]

StoredLabel(strings, label) ==
    [key |-> Str(strings, label.key), str |-> Str(strings, label.str),
     num |-> label.num, num_unit |-> Str(strings, label.num_unit)]

StoredLabels(strings, labels) ==
    [i \in 1..Len(labels) |-> StoredLabel(strings, labels[i])]

\* the locations and labels an entry of the sample table stands for
StoredKey(p, key) ==
    [locations |-> [i \in 1..Len(key.locations) |-> StoredLocation(p, key.locations[i])],
     labels |-> StoredLabels(p.strings, key.labels)]

StoredKeys == {StoredKey(profile, profile.samples[i].key) : i \in 1..Len(profile.samples)}

AskedKeys == {KeyOf(AcceptedAdds[i].sample) : i \in 1..Len(AcceptedAdds)}

-----------------------------------------------------------------------------
(* Sample aggregation *)

\* C1: after any sequence of add calls the sample table holds exactly one
\* entry per distinct key (locations, labels) of the accepted adds, and the
\* values stored for a key are the element-wise sum of the values of every
\* accepted add made with that key.
C1_OneEntryPerKeyWithSummedValues ==
    /\ Len(profile.samples) = Cardinality(AskedKeys)
    /\ StoredKeys = AskedKeys
    /\ \A i \in 1..Len(profile.samples) :
           profile.samples[i].value = SumFor(StoredKey(profile, profile.samples[i].key))

\* add(S); add(S') with equal keys and different values, and another key:
\* one entry holds the sum of two adds
C1_Witness ==
    /\ Len(profile.samples) = 2
    /\ Len(AcceptedAdds) = 3
    /\ \E i, j \in 1..3 :
           /\ i < j
           /\ KeyOf(AcceptedAdds[i].sample) = KeyOf(AcceptedAdds[j].sample)
           /\ AcceptedAdds[i].sample.values # AcceptedAdds[j].sample.values

\* C2: the id returned by an accepted add is 1-based and is the position of
\* the sample's key in the order in which the distinct keys were first added;
\* a later add of an equal key returns the same id whatever was added between.
C2_IdIsInsertionPosition ==
    \A i \in 1..Len(AcceptedAdds) :
        /\ AcceptedAdds[i].id >= 1
        /\ AcceptedAdds[i].id = Position(KeysInOrder, KeyOf(AcceptedAdds[i].sample))

\* key k1, then another key, then k1 again: the third add returns id 1
C2_Witness ==
    /\ Len(AcceptedAdds) = 3
    /\ KeyOf(AcceptedAdds[1].sample) # KeyOf(AcceptedAdds[2].sample)
    /\ KeyOf(AcceptedAdds[1].sample) = KeyOf(AcceptedAdds[3].sample)
    /\ AcceptedAdds[2].id = 2
    /\ AcceptedAdds[3].id = 1

\* C3: two samples are aggregated into the same entry if and only if their
\* locations are identical and their labels are identical in the same order
\* (labels as pprof carries them: an absent string is the empty string); the
\* entry an add went to stands for exactly that sample's locations and labels,
\* and different entries stand for different keys.
C3_SameEntryIffSameKey ==
    /\ \A i, j \in 1..Len(AcceptedAdds) :
           (AcceptedAdds[i].id = AcceptedAdds[j].id)
               <=> (KeyOf(AcceptedAdds[i].sample) = KeyOf(AcceptedAdds[j].sample))
    /\ \A i \in 1..Len(AcceptedAdds) :
           /\ AcceptedAdds[i].id \in 1..Len(profile.samples)
           /\ StoredKey(profile, profile.samples[AcceptedAdds[i].id].key)
                  = KeyOf(AcceptedAdds[i].sample)
    /\ \A i, j \in 1..Len(profile.samples) :
           i # j => StoredKey(profile, profile.samples[i].key)
                        # StoredKey(profile, profile.samples[j].key)

IsPermutation(a, b) ==
    /\ Len(a) = Len(b)
    /\ \E f \in [1..Len(a) -> 1..Len(a)] :
           /\ \A i, j \in 1..Len(a) : i # j => f[i] # f[j]
           /\ \A i \in 1..Len(a) : a[i] = b[f[i]]

\* two samples that differ only in the order of their labels sit in two entries
C3_Witness ==
    \E i, j \in 1..Len(profile.samples) :
        /\ i # j
        /\ profile.samples[i].key.locations = profile.samples[j].key.locations
        /\ Len(profile.samples[i].key.labels) = 2
        /\ IsPermutation(profile.samples[i].key.labels, profile.samples[j].key.labels)

-----------------------------------------------------------------------------
(* String table *)

NoDuplicates(seq) == \A i, j \in 1..Len(seq) : i # j => seq[i] # seq[j]

\* every string of the table is found again by intern under its own index,
\* without changing the table
InternFindsEveryString ==
    \A j \in 1..Len(profile.strings) :
        LET r == intern(profile, profile.strings[j])
        IN  r.id = j - 1 /\ r.profile = profile

\* a call that is not a successful reset keeps every string under the id it
\* has and gives the strings it adds the next free ids
StringsKeepTheirIds ==
    (call'.op \in {"reset", "ddog_Profile_reset"} /\ result'.ok)
    \/ /\ Len(profile'.strings) >= Len(profile.strings)
       /\ \A j \in 1..Len(profile.strings) :
              intern(profile', profile.strings[j]).id = intern(profile, profile.strings[j]).id
       /\ \A j \in (Len(profile.strings) + 1)..Len(profile'.strings) :
              /\ intern(profile, profile'.strings[j]).id = Len(profile.strings)
              /\ intern(profile', profile'.strings[j]).id = j - 1

\* C4: within one profile lifetime interning is stable under any sequence of
\* operations: a string keeps the id it got the first time, two distinct
\* strings never share an id, the empty string has id 0, and a newly seen
\* string gets the id equal to the number of strings interned before it.
C4_InterningIsStable ==
    /\ [](intern(profile, "").id = 0 /\ InternFindsEveryString)
    /\ [][StringsKeepTheirIds]_vars

\* a sample with labels is added, another call interns new strings, and the
\* same sample is added again
C4_Witness ==
    /\ Len(Lifetime) = 3
    /\ IsAccepted(Lifetime[1])
    /\ Lifetime[1].sample.labels # <<>>
    /\ Lifetime[2].op = "add_endpoint"
    /\ Lifetime[3] = Lifetime[1]

\* C5: in every reachable state the string table is non-empty with the empty
\* string at index 0, and the string_table emitted by serialize lists the
\* interned strings in their table order without duplicates.
C5_EmptyStringFirstAndTableEmitted ==
    /\ Len(profile.strings) >= 1
    /\ profile.strings[1] = ""
    /\ NoDuplicates(profile.strings)
    /\ call.op = "serialize" =>
           /\ result.encoded.buffer.string_table = profile.strings
           /\ result.encoded.buffer.string_table[1] = ""
           /\ NoDuplicates(result.encoded.buffer.string_table)

\* a serialize of a profile that was reset and then took an endpoint
C5_Witness ==
    /\ call.op = "serialize"
    /\ LastReset > 0
    /\ Len(EndpointCalls) > 0
    /\ Len(result.encoded.buffer.string_table) > Len(profile.sample_types) + 3

-----------------------------------------------------------------------------
(* Rejected adds *)

\* C6: an add whose values differ in number from the sample types returns
\* the id 0 and changes nothing in the profile (string, mapping, function,
\* location and sample tables, endpoint data).
C6_MismatchedAddChangesNothing ==
    [][(call'.op = "add" /\ Len(call'.sample.values) # Len(profile.sample_types))
          => (profile' = profile /\ result' = [ok |-> TRUE, id |-> 0])]_vars

\* a rejected add, carrying labels the table has not seen, on a profile that
\* already holds a sample
C6_Witness ==
    /\ call.op = "add"
    /\ Len(call.sample.values) # Len(profile.sample_types)
    /\ result.id = 0
    /\ Len(profile.samples) >= 1
    /\ \E i \in 1..Len(call.sample.labels) :
           \A j \in 1..Len(profile.strings) : profile.strings[j] # call.sample.labels[i].key

-----------------------------------------------------------------------------
(* Endpoint correlation *)

\* the endpoint of the most recent add_endpoint call of the lifetime made for
\* the span, None if there was none
LastEndpoint(span) ==
    LET calls == {i \in 1..Len(EndpointCalls) :
                     EndpointCalls[i].local_root_span_id = span}
    IN  IF calls = {}
        THEN None
        ELSE Some(EndpointCalls[CHOOSE i \in calls : \A j \in calls : j <= i].endpoint)

IsSpanLabel(label) == label.key = "local root span id"

\* index of the first label with key "local root span id", 0 if there is none
FirstSpanLabel(labels) ==
    LET spans == {i \in 1..Len(labels) : IsSpanLabel(labels[i])}
    IN  IF spans = {} THEN 0 ELSE CHOOSE i \in spans : \A j \in spans : i <= j

TraceEndpointLabel(endpoint) ==
    [key |-> "trace endpoint", str |-> endpoint, num |-> 0, num_unit |-> ""]

\* the message of the last serialize call
Emitted == result.encoded.buffer

\* the labels of the i-th emitted sample, read through the emitted string table
EmittedLabels(i) == StoredLabels(Emitted.string_table, Emitted.samples[i].labels)

\* the labels the i-th aggregated sample was added with
OriginalLabels(i) == KeysInOrder[i].labels

Serialized == call.op = "serialize"

\* C7 as amended: if the first label of a sample with key "local root span id"
\* has string value X and the most recent add_endpoint(X, _) call of the
\* lifetime passed E, whether made before or after the sample was added, the
\* serialized sample has (key "trace endpoint", str E) appended after its
\* original labels; a sample with no such label, or whose first span label has
\* no registered endpoint, is serialized with exactly its original labels.
C7_EndpointOfFirstSpanLabelAppended ==
    Serialized =>
        /\ Len(Emitted.samples) = Len(KeysInOrder)
        /\ \A i \in 1..Len(Emitted.samples) :
               LET labels == OriginalLabels(i)
                   first == FirstSpanLabel(labels)
                   endpoint == IF first = 0 THEN None ELSE LastEndpoint(labels[first].str)
               IN  EmittedLabels(i) =
                       IF endpoint = None
                       THEN labels
                       ELSE Append(labels, TraceEndpointLabel(endpoint[1]))

\* one sample added before the endpoint of its span was registered and one
\* added after it, both emitted with the derived label
C7_Witness ==
    /\ Serialized
    /\ Len(Lifetime) = 3
    /\ Lifetime[1].op = "add"
    /\ Lifetime[2].op = "add_endpoint"
    /\ Lifetime[3].op = "add"
    /\ Len(Emitted.samples) = 2
    /\ \A i \in 1..2 : EmittedLabels(i) =
           Append(OriginalLabels(i), TraceEndpointLabel(Lifetime[2].endpoint))

\* C7 as stated: whenever a sample carries some label with key "local root
\* span id" and string value X, and add_endpoint(X, E) was called at some point
\* before the serialization, the serialized sample has (key "trace endpoint",
\* str E) appended after its original labels.
C7_AsStated ==
    Serialized =>
        \A i \in 1..Len(Emitted.samples) :
            \A l \in 1..Len(OriginalLabels(i)), c \in 1..Len(EndpointCalls) :
                (/\ IsSpanLabel(OriginalLabels(i)[l])
                 /\ OriginalLabels(i)[l].str = EndpointCalls[c].local_root_span_id)
                    => EmittedLabels(i) =
                           Append(OriginalLabels(i),
                                  TraceEndpointLabel(EndpointCalls[c].endpoint))

Count(seq, Test(_)) == Cardinality({i \in 1..Len(seq) : Test(seq[i])})

IsTraceEndpointLabel(label) == label.key = "trace endpoint"

\* C8: serialization appends at most one "trace endpoint" label to a sample,
\* and the scan stops at the first label with key "local root span id": when
\* the value of that first span label has no registered endpoint nothing is
\* appended, even when a later span label of the sample has one.
C8_ScanStopsAtFirstSpanLabel ==
    Serialized =>
        \A i \in 1..Len(Emitted.samples) :
            LET labels == OriginalLabels(i)
                first == FirstSpanLabel(labels)
            IN  /\ Len(EmittedLabels(i)) <= Len(labels) + 1
                /\ SubSeq(EmittedLabels(i), 1, Len(labels)) = labels
                /\ Count(EmittedLabels(i), IsTraceEndpointLabel)
                       <= Count(labels, IsTraceEndpointLabel) + 1
                /\ (first # 0 /\ LastEndpoint(labels[first].str) = None)
                       => EmittedLabels(i) = labels

\* a sample whose first span label has no endpoint and whose second has one is
\* emitted with its two labels only
C8_Witness ==
    /\ Serialized
    /\ \E i \in 1..Len(Emitted.samples) :
           LET labels == OriginalLabels(i)
           IN  /\ Len(labels) = 2
               /\ IsSpanLabel(labels[1]) /\ LastEndpoint(labels[1].str) = None
               /\ IsSpanLabel(labels[2]) /\ LastEndpoint(labels[2].str) # None
               /\ EmittedLabels(i) = labels

\* C9: the endpoint attached at serialization to the samples of a span is the
\* one passed in the most recent add_endpoint call for that span; the span map
\* holds one entry per span, with that endpoint, and no earlier endpoint of
\* the span is emitted.
C9_LastWriterWins ==
    /\ \A i \in 1..Len(EndpointCalls) :
           LET span == EndpointCalls[i].local_root_span_id
               entries == {k \in 1..Len(profile.endpoints.mappings) :
                              Str(profile.strings, profile.endpoints.mappings[k].key) = span}
           IN  /\ Cardinality(entries) = 1
               /\ \A k \in entries :
                      Some(Str(profile.strings, profile.endpoints.mappings[k].value))
                          = LastEndpoint(span)
    /\ Serialized =>
           \A i \in 1..Len(Emitted.samples) :
               Len(EmittedLabels(i)) > Len(OriginalLabels(i)) =>
                   LET labels == OriginalLabels(i)
                       last == EmittedLabels(i)[Len(EmittedLabels(i))]
                   IN  /\ FirstSpanLabel(labels) # 0
                       /\ Some(last.str) = LastEndpoint(labels[FirstSpanLabel(labels)].str)

\* a span registered twice with different endpoints, and a sample of that span
\* emitted with the second one
C9_Witness ==
    /\ Serialized
    /\ Len(EndpointCalls) = 2
    /\ EndpointCalls[1].local_root_span_id = EndpointCalls[2].local_root_span_id
    /\ EndpointCalls[1].endpoint # EndpointCalls[2].endpoint
    /\ Len(Emitted.samples) = 1
    /\ EmittedLabels(1) =
           Append(OriginalLabels(1), TraceEndpointLabel(EndpointCalls[2].endpoint))

\* the endpoints passed to add_endpoint in the lifetime, in call order
EndpointsPassed == [i \in 1..Len(EndpointCalls) |-> EndpointCalls[i].endpoint]

\* the statistics the calls ask for: one entry per endpoint, in first-call
\* order, counting the calls made with it
ExpectedStats ==
    LET names == FirstOccurrences(EndpointsPassed, 1, <<>>)
    IN  [i \in 1..Len(names) |->
            [key |-> names[i],
             value |-> Cardinality({c \in 1..Len(EndpointsPassed) :
                                       EndpointsPassed[c] = names[i]})]]

\* C10: in every reachable state stats[E] is the number of add_endpoint calls
\* made with endpoint E since the profile was created or last reset, whatever
\* the spans, the overwrites and the samples; endpoints never passed have no
\* entry and the entries are in first-call order.  The statistics handed out
\* by serialize are the same.
C10_StatsCountCalls ==
    /\ profile.endpoints.stats = ExpectedStats
    /\ Serialized => result.encoded.endpoints_stats = ExpectedStats

\* an endpoint passed for two spans and another one overwriting the first span
C10_Witness ==
    /\ Len(EndpointCalls) = 3
    /\ Len(profile.endpoints.stats) = 2
    /\ profile.endpoints.stats[1].value = 2
    /\ profile.endpoints.stats[2].value = 1
    /\ Len(profile.endpoints.mappings) = 2

-----------------------------------------------------------------------------
(* Reset *)

\* the last call was a reset that succeeded
ResetDone == call.op = "reset" /\ result.ok

\* the profile the last reset returned
Previous == result.previous[1]

\* the sample types of a profile with their string ids resolved
ResolvedSampleTypes(p) ==
    [i \in 1..Len(p.sample_types) |->
        [type |-> Str(p.strings, p.sample_types[i].type),
         unit |-> Str(p.strings, p.sample_types[i].unit)]]

\* the period of a profile with the string ids of its type resolved
ResolvedPeriod(p) ==
    IF p.period = None
    THEN None
    ELSE Some([value |-> p.period[1].value,
               type |-> [type |-> Str(p.strings, p.period[1].type.type),
                         unit |-> Str(p.strings, p.period[1].type.unit)]])

\* C11: after a reset the profile left in place has the sample types and the
\* period of the profile before the reset, as strings resolved through the new
\* string table and with the same period value, while its mapping, function,
\* location and sample tables, its span-to-endpoint map and its endpoint
\* statistics are empty.
C11_ResetPreservesSchema ==
    ResetDone =>
        /\ ResolvedSampleTypes(profile) = ResolvedSampleTypes(Previous)
        /\ ResolvedPeriod(profile) = ResolvedPeriod(Previous)
        /\ profile.mappings = <<>>
        /\ profile.functions = <<>>
        /\ profile.locations = <<>>
        /\ profile.samples = <<>>
        /\ profile.endpoints.mappings = <<>>
        /\ profile.endpoints.stats = <<>>

\* a reset of a profile with a period that held a sample with a location and
\* an endpoint
C11_Witness ==
    /\ ResetDone
    /\ Previous.period # None
    /\ Previous.samples # <<>>
    /\ Previous.locations # <<>>
    /\ Previous.endpoints.mappings # <<>>
    /\ Previous.endpoints.stats # <<>>
    /\ Len(Previous.strings) > Len(profile.strings)

\* a successful reset returns the profile exactly as it was before the call
ResetReturnsStateBefore ==
    (call'.op = "reset" /\ result'.ok) =>
        /\ result'.previous = Some(profile)
        /\ history'[Len(history')].previous = Some(profile)

\* the profiles handed back by earlier resets stay as they were returned
ReturnedProfilesKept ==
    \A i \in 1..Len(history) :
        history[i].op = "reset" =>
            /\ i <= Len(history')
            /\ history'[i].op = "reset"
            /\ history'[i].previous = history[i].previous

\* C12: the profile returned by reset is a complete snapshot of the state just
\* before the reset (sample keys with their accumulated values, strings,
\* mappings, functions, locations, span-to-endpoint map, endpoint statistics,
\* start time), and later operations on the live profile never change it.
C12_ResetReturnsCompleteSnapshot ==
    /\ [][ResetReturnsStateBefore]_vars
    /\ [][ReturnedProfilesKept]_vars

\* a profile with an aggregated sample and an endpoint was returned by a reset
\* and the live profile took a sample after that
C12_Witness ==
    /\ Len(history) = 3
    /\ history[2].op = "reset" /\ history[2].ok
    /\ history[2].previous[1].samples # <<>>
    /\ history[2].previous[1].strings # profile.strings
    /\ IsAccepted(history[3])
    /\ profile.samples # <<>>
    /\ profile.samples # history[2].previous[1].samples

\* C13: for a profile created through the builder, reset leaves sample_types
\* and period equal to those of the previous profile as stored values, with
\* the same string ids, after any sequence of add and add_endpoint calls, also
\* when strings of the sample types repeat or are empty.
C13_ResetKeepsStringIds ==
    ResetDone =>
        /\ profile.sample_types = Previous.sample_types
        /\ profile.period = Previous.period

\* a reset, after an add and an add_endpoint, of a profile whose two sample
\* types share their type string and of which one has the empty unit
C13_Witness ==
    /\ ResetDone
    /\ Len(history) = 3
    /\ IsAccepted(history[1])
    /\ history[2].op = "add_endpoint"
    /\ Len(profile.sample_types) = 2
    /\ profile.sample_types[1].type = profile.sample_types[2].type
    /\ profile.sample_types[1].unit = 0
    /\ profile.period # None
    /\ Len(Previous.strings) > Len(profile.strings)

-----------------------------------------------------------------------------
(* Serialization *)

\* a serialize call leaves every field of the profile as it was
SerializeLeavesProfile ==
    call'.op = "serialize" => profile' = profile

\* an accepted add made right after a serialize, with a key added before it,
\* goes to the entry of that key
AddAfterSerializeAggregates ==
    (/\ call.op = "serialize"
     /\ call'.op = "add"
     /\ result'.ok
     /\ Len(call'.sample.values) = Len(profile.sample_types)
     /\ KeyOf(call'.sample) \in AskedKeys)
        => /\ Len(profile'.samples) = Len(profile.samples)
           /\ result'.id = Position(KeysInOrder, KeyOf(call'.sample))
           /\ StoredKey(profile', profile'.samples[result'.id].key) = KeyOf(call'.sample)

\* a serialize that follows a serialize, with the same duration argument and
\* the same end time (given, or read from the clock), gives the same output
SerializeTwiceSameOutput ==
    (/\ call.op = "serialize"
     /\ call'.op = "serialize"
     /\ call'.duration = call.duration
     /\ result'.encoded.end = result.encoded.end)
        => result'.encoded = result.encoded

\* C14: serialize leaves the profile intact: no table, schema field, start
\* time, endpoint mapping or endpoint statistic differs after the call, the
\* derived "trace endpoint" labels are not stored back into the sample keys,
\* samples added afterwards still aggregate with keys added before, and two
\* serializations with the same end time and duration and no operation in
\* between produce equal output.
C14_SerializeLeavesProfileIntact ==
    /\ [][SerializeLeavesProfile]_vars
    /\ [][AddAfterSerializeAggregates]_vars
    /\ [][SerializeTwiceSameOutput]_vars

\* a serialize that emitted a sample with a derived label while the stored key
\* of that sample has only its own labels
C14_Witness ==
    /\ Serialized
    /\ \E i \in 1..Len(profile.samples) :
           /\ Len(Emitted.samples[i].labels) = Len(profile.samples[i].key.labels) + 1
           /\ StoredLabels(profile.strings, profile.samples[i].key.labels)
                  = OriginalLabels(i)

-----------------------------------------------------------------------------
(* Emitted entities *)

\* no add of the lifetime ended in FullError
NoFault ==
    \A i \in 1..Len(Lifetime) : Lifetime[i].op = "add" => Lifetime[i].ok

RECURSIVE Flatten(_, _)
Flatten(seqs, i) == IF i > Len(seqs) THEN <<>> ELSE seqs[i] \o Flatten(seqs, i + 1)

\* the locations passed to the accepted adds, in call order
LocationsPassed ==
    Flatten([i \in 1..Len(AcceptedAdds) |-> AcceptedAdds[i].sample.locations], 1)

\* the functions passed to the accepted adds, in call order
FunctionsPassed ==
    Flatten([i \in 1..Len(LocationsPassed) |->
                [k \in 1..Len(LocationsPassed[i].lines) |->
                    LocationsPassed[i].lines[k].function]], 1)

MappingsPassed == [i \in 1..Len(LocationsPassed) |-> LocationsPassed[i].mapping]

\* the tables of the emitted message, read as a profile
EmittedTables ==
    [mappings |-> Emitted.mappings, functions |-> Emitted.functions,
     locations |-> Emitted.locations, strings |-> Emitted.string_table]

Ids(table) == [i \in 1..Len(table) |-> table[i].id]

\* a call other than a successful reset keeps the entries of the mapping,
\* function and location tables where they are and appends the new ones
TablesKeepInsertionOrder ==
    (call'.op \in {"reset", "ddog_Profile_reset"} /\ result'.ok)
    \/ /\ SubSeq(profile'.mappings, 1, Len(profile.mappings)) = profile.mappings
       /\ SubSeq(profile'.functions, 1, Len(profile.functions)) = profile.functions
       /\ SubSeq(profile'.locations, 1, Len(profile.locations)) = profile.locations

\* the emitted entities carry the ids 1..n, the entity emitted at position i
\* is the i-th of the table, and the order is that of the first add of each
EmittedIdsDense ==
    Serialized =>
        /\ Ids(Emitted.mappings) = [i \in 1..Len(profile.mappings) |-> i]
        /\ Ids(Emitted.functions) = [i \in 1..Len(profile.functions) |-> i]
        /\ Ids(Emitted.locations) = [i \in 1..Len(profile.locations) |-> i]
        /\ \A i \in 1..Len(Emitted.mappings) :
               StoredMapping(EmittedTables, i) = StoredMapping(profile, i)
        /\ \A i \in 1..Len(Emitted.functions) :
               StoredFunction(EmittedTables, i) = StoredFunction(profile, i)
        /\ \A i \in 1..Len(Emitted.locations) :
               StoredLocation(EmittedTables, i) = StoredLocation(profile, i)
        /\ NoFault =>
               /\ [i \in 1..Len(Emitted.mappings) |->
                      StoredMapping(EmittedTables, Emitted.mappings[i].id)]
                      = FirstOccurrences(MappingsPassed, 1, <<>>)
               /\ [i \in 1..Len(Emitted.functions) |->
                      StoredFunction(EmittedTables, Emitted.functions[i].id)]
                      = FirstOccurrences(FunctionsPassed, 1, <<>>)
               /\ [i \in 1..Len(Emitted.locations) |->
                      StoredLocation(EmittedTables, Emitted.locations[i].id)]
                      = FirstOccurrences(LocationsPassed, 1, <<>>)

\* C15: in every serialized profile the emitted mappings, functions and
\* locations each carry the ids 1, 2, ..., n in insertion order, with no
\* gaps, no duplicates and no id 0, after any sequence of adds with repeated
\* and new entities.
C15_EmittedIdsDenseInInsertionOrder ==
    /\ []EmittedIdsDense
    /\ [][TablesKeepInsertionOrder]_vars

\* a serialize after adds that passed a location twice and brought two
\* locations and two functions in all
C15_Witness ==
    /\ Serialized
    /\ NoFault
    /\ Len(Emitted.locations) = 2
    /\ Len(Emitted.functions) = 2
    /\ Len(Emitted.mappings) = 1
    /\ Len(LocationsPassed) > 2

-----------------------------------------------------------------------------
(* Referential integrity *)

\* the ids stored in the sample keys and in the locations of a set of tables
\* are within the tables they refer to
IdsInRange(samples_locations, tables) ==
    /\ \A i \in 1..Len(samples_locations) :
           \A k \in 1..Len(samples_locations[i]) :
               samples_locations[i][k] \in 1..Len(tables.locations)
    /\ \A i \in 1..Len(tables.locations) :
           /\ tables.locations[i].mapping_id \in 0..Len(tables.mappings)
           /\ \A k \in 1..Len(tables.locations[i].lines) :
                  tables.locations[i].lines[k].function_id \in 1..Len(tables.functions)

\* the entity emitted under an id
ById(table, id) == table[CHOOSE i \in 1..Len(table) : table[i].id = id]

OneById(table, id) == Cardinality({i \in 1..Len(table) : table[i].id = id}) = 1

\* the location emitted under an id, with the mapping and the functions emitted
\* under the ids it holds, and all strings resolved
EmittedLocation(id) ==
    LET l == ById(Emitted.locations, id)
        m == ById(Emitted.mappings, l.mapping_id)
    IN  [mapping |-> [memory_start |-> m.memory_start, memory_limit |-> m.memory_limit,
                      file_offset |-> m.file_offset,
                      filename |-> Str(Emitted.string_table, m.filename),
                      build_id |-> Str(Emitted.string_table, m.build_id)],
         address |-> l.address,
         lines |-> [k \in 1..Len(l.lines) |->
                       LET f == ById(Emitted.functions, l.lines[k].function_id)
                       IN  [function |-> [name |-> Str(Emitted.string_table, f.name),
                                          system_name |->
                                              Str(Emitted.string_table, f.system_name),
                                          filename |->
                                              Str(Emitted.string_table, f.filename),
                                          start_line |-> f.start_line],
                            line |-> l.lines[k].line]],
         is_folded |-> l.is_folded]

\* every id of the emitted message is the id of exactly one emitted entity
EmittedIdsResolve ==
    /\ \A i \in 1..Len(Emitted.samples) :
           \A k \in 1..Len(Emitted.samples[i].location_ids) :
               OneById(Emitted.locations, Emitted.samples[i].location_ids[k])
    /\ \A i \in 1..Len(Emitted.locations) :
           /\ OneById(Emitted.mappings, Emitted.locations[i].mapping_id)
           /\ \A k \in 1..Len(Emitted.locations[i].lines) :
                  OneById(Emitted.functions, Emitted.locations[i].lines[k].function_id)

\* C16: referential integrity holds in every reachable state and in every
\* emitted profile: each location id in a sample key is between 1 and the
\* location table size, each function_id in a Line is between 1 and the
\* function table size, each mapping_id in a Location is 0 or at most the
\* mapping table size, and each id recorded at add time denotes the entity
\* that the serializer emits under that id.
C16_ReferentialIntegrity ==
    /\ IdsInRange([i \in 1..Len(profile.samples) |-> profile.samples[i].key.locations],
                  profile)
    /\ \A i \in 1..Len(AcceptedAdds) :
           /\ AcceptedAdds[i].id \in 1..Len(profile.samples)
           /\ [k \in 1..Len(profile.samples[AcceptedAdds[i].id].key.locations) |->
                  StoredLocation(profile, profile.samples[AcceptedAdds[i].id].key.locations[k])]
                  = AcceptedAdds[i].sample.locations
    /\ Serialized =>
           /\ IdsInRange([i \in 1..Len(Emitted.samples) |-> Emitted.samples[i].location_ids],
                         EmittedTables)
           /\ EmittedIdsResolve
           /\ \A i \in 1..Len(AcceptedAdds) :
                  [k \in 1..Len(Emitted.samples[AcceptedAdds[i].id].location_ids) |->
                      EmittedLocation(Emitted.samples[AcceptedAdds[i].id].location_ids[k])]
                      = AcceptedAdds[i].sample.locations

\* a serialize of a profile with a sample of two locations that share their
\* mapping and differ in their function
C16_Witness ==
    /\ Serialized
    /\ \E i \in 1..Len(Emitted.samples) :
           /\ Len(Emitted.samples[i].location_ids) = 2
           /\ Emitted.samples[i].location_ids[1] # Emitted.samples[i].location_ids[2]
           /\ EmittedLocation(Emitted.samples[i].location_ids[1]).mapping
                  = EmittedLocation(Emitted.samples[i].location_ids[2]).mapping
           /\ EmittedLocation(Emitted.samples[i].location_ids[1]).lines
                  # EmittedLocation(Emitted.samples[i].location_ids[2]).lines

-----------------------------------------------------------------------------
(* String ids *)

\* every StringId stored anywhere in the profile
StringIdsOf(p) ==
    UNION {
        {p.sample_types[i].type : i \in 1..Len(p.sample_types)},
        {p.sample_types[i].unit : i \in 1..Len(p.sample_types)},
        IF p.period = None THEN {} ELSE {p.period[1].type.type, p.period[1].type.unit},
        {p.mappings[i].filename : i \in 1..Len(p.mappings)},
        {p.mappings[i].build_id : i \in 1..Len(p.mappings)},
        {p.functions[i].name : i \in 1..Len(p.functions)},
        {p.functions[i].system_name : i \in 1..Len(p.functions)},
        {p.functions[i].filename : i \in 1..Len(p.functions)},
        UNION {{p.samples[i].key.labels[k].key : k \in 1..Len(p.samples[i].key.labels)} :
                  i \in 1..Len(p.samples)},
        UNION {{p.samples[i].key.labels[k].str : k \in 1..Len(p.samples[i].key.labels)} :
                  i \in 1..Len(p.samples)},
        UNION {{p.samples[i].key.labels[k].num_unit :
                   k \in 1..Len(p.samples[i].key.labels)} : i \in 1..Len(p.samples)},
        {p.endpoints.mappings[i].key : i \in 1..Len(p.endpoints.mappings)},
        {p.endpoints.mappings[i].value : i \in 1..Len(p.endpoints.mappings)},
        {p.endpoints.local_root_span_id_label, p.endpoints.endpoint_label}}

\* C17: in every reachable state every StringId stored anywhere in the profile
\* (sample types, period type, mapping filename/build_id, function
\* name/system_name/filename, label key/str/num_unit, span-to-endpoint map keys
\* and values, cached endpoint label ids) is smaller than the current string
\* table length, also immediately after a reset.
C17_StringIdsInTable ==
    \A id \in StringIdsOf(profile) : id >= 0 /\ id < Len(profile.strings)

\* a profile that was reset and then took a sample with a label and a
\* location and an endpoint: ids of every kind are stored
C17_Witness ==
    /\ LastReset > 0
    /\ profile.period # None
    /\ profile.mappings # <<>>
    /\ profile.functions # <<>>
    /\ \E i \in 1..Len(profile.samples) : profile.samples[i].key.labels # <<>>
    /\ profile.endpoints.mappings # <<>>
    /\ profile.endpoints.endpoint_label = Len(profile.strings) - 3

-----------------------------------------------------------------------------
(* Value vectors *)

\* C18: in every reachable state every value vector stored in the sample
\* aggregation table has as many values as the profile has sample types.
C18_ValuesMatchSampleTypes ==
    \A i \in 1..Len(profile.samples) :
        Len(profile.samples[i].value) = Len(profile.sample_types)

\* a profile that took a sample, then refused one with another number of
\* values, then took the first key again
C18_Witness ==
    /\ Len(Lifetime) = 3
    /\ IsAccepted(Lifetime[1])
    /\ Lifetime[2].op = "add"
    /\ Len(Lifetime[2].sample.values) # Len(profile.sample_types)
    /\ IsAccepted(Lifetime[3])
    /\ Lifetime[3].id = Lifetime[1].id
    /\ Len(profile.samples) = 1
    /\ Len(profile.samples[1].value) = Len(profile.sample_types)

-----------------------------------------------------------------------------
(* Container ceiling *)

\* the ceiling of a table: 2^32 - 1 entries, one more than CONTAINER_MAX
Ceiling == CONTAINER_MAX + 1

\* the last call was an add that ended in FullError
Faulted(c, r) == c.op = "add" /\ ~r.ok

\* C19 as stated: no internable table (strings, mappings, functions,
\* locations) ever grows beyond the container ceiling: an add that would push
\* a table past the ceiling is answered with FullError instead, whatever the
\* shape of the sample.
C19_AsStated ==
    [][call'.op = "add" =>
          /\ Len(profile'.strings) > Len(profile.strings)
                 => Len(profile'.strings) <= Ceiling
          /\ Len(profile'.mappings) > Len(profile.mappings)
                 => Len(profile'.mappings) <= Ceiling
          /\ Len(profile'.functions) > Len(profile.functions)
                 => Len(profile'.functions) <= Ceiling
          /\ Len(profile'.locations) > Len(profile.locations)
                 => Len(profile'.locations) <= Ceiling]_vars

\* C20 as stated: an add that ends with FullError performs no insert: the
\* string, mapping, function, location and sample tables are the same after
\* the call as before it.
C20_AsStated ==
    [][Faulted(call', result') =>
          /\ profile'.strings = profile.strings
          /\ profile'.mappings = profile.mappings
          /\ profile'.functions = profile.functions
          /\ profile'.locations = profile.locations
          /\ profile'.samples = profile.samples]_vars

-----------------------------------------------------------------------------
(* After the fault *)

\* an add of the current profile lifetime has ended in FullError
FaultedBefore ==
    \E i \in 1..Len(Lifetime) : Lifetime[i].op = "add" /\ ~Lifetime[i].ok

\* C21 as stated: capacity exhaustion is recoverable and does not poison the
\* profile: once an add has ended in FullError every further add on that
\* profile ends in FullError too, serialize still succeeds and emits every
\* sample aggregated so far, and the first add on the profile a reset leaves
\* behind is accepted.
C21_AsStated ==
    [][/\ (FaultedBefore /\ call'.op = "add") => ~result'.ok
       /\ (FaultedBefore /\ call'.op = "serialize") =>
              /\ result'.ok
              /\ Len(result'.encoded.buffer.samples) = Len(profile.samples)
              /\ \A i \in 1..Len(profile.samples) :
                     result'.encoded.buffer.samples[i].values
                         = profile.samples[i].value
       /\ (ResetDone /\ call'.op = "add"
              /\ Len(call'.sample.values) = Len(profile.sample_types))
              => result'.ok]_vars

-----------------------------------------------------------------------------
(* Time and duration of the emitted profile *)

\* the last call was a serialization, through the Rust or the C interface
SerializedAny == call.op \in {"serialize", "ddog_Profile_serialize"}

\* the duration the caller of the last serialization supplied, if any
GivenDuration ==
    IF call.op = "serialize" THEN call.duration ELSE call.duration_nanos

\* C22: the emitted duration_nanos is the duration the caller supplied, if it
\* is not negative, clamped to i64::MAX; without one (or, through the C
\* interface, with a negative one) it is end - start clamped to i64::MAX, and
\* 0 when end is earlier than start.
C22_DurationRule ==
    SerializedAny =>
        Emitted.duration_nanos =
            IF GivenDuration # None /\ GivenDuration[1] >= 0
            THEN Min(GivenDuration[1], I64_MAX)
            ELSE IF result.encoded.end < result.encoded.start
                 THEN 0
                 ELSE Min(result.encoded.end - result.encoded.start, I64_MAX)

\* a negative duration passed through the C interface, answered with end - start
C22_Witness ==
    /\ call.op = "ddog_Profile_serialize"
    /\ call.duration_nanos # None
    /\ call.duration_nanos[1] < 0
    /\ result.encoded.end > result.encoded.start
    /\ Emitted.duration_nanos = result.encoded.end - result.encoded.start

ClampedNanos(t) == IF t < 0 THEN 0 ELSE Min(t, I64_MAX)

\* C24: the emitted time_nanos is the start time of the profile in nanoseconds
\* since the Unix epoch clamped to i64::MAX, and 0 when the start time lies
\* before the epoch; the serialization that follows reset(Some(t)) reports t
\* as start.
C24_TimeNanosIsClampedStart ==
    [][call'.op \in {"serialize", "ddog_Profile_serialize"} =>
          /\ result'.encoded.start = profile.start_time
          /\ result'.encoded.buffer.time_nanos = ClampedNanos(profile.start_time)
          /\ (ResetDone /\ call.start_time # None) =>
                 /\ result'.encoded.start = call.start_time[1]
                 /\ result'.encoded.buffer.time_nanos
                        = ClampedNanos(call.start_time[1])]_vars

\* serialized right after a reset, reporting a start time after the epoch that
\* is not the start time of the profile the reset replaced
C24_Witness ==
    /\ SerializedAny
    /\ history # <<>>
    /\ history[Len(history)].op = "reset"
    /\ history[Len(history)].ok
    /\ history[Len(history)].previous[1].start_time # result.encoded.start
    /\ result.encoded.start > 0
    /\ Emitted.time_nanos = result.encoded.start

-----------------------------------------------------------------------------
(* Determinism *)

\* a profile without its start time
Timeless(p) == [p EXCEPT !.start_time = 0]

\* an encoded message without its time fields
TimelessMessage(m) == [m EXCEPT !.time_nanos = 0, !.duration_nanos = 0]

TwinSerialized == call.op = "serialize" /\ twin.encoded # None

-----------------------------------------------------------------------------
(* Sample rows *)

\* C26: a serialized profile has exactly one sample row per aggregated key, in
\* the order the keys were first added, each with the location ids of its key,
\* the values accumulated for it, and its labels in their original order,
\* followed by the derived endpoint label if there is one; a profile no sample
\* was added to serializes with no rows, with or without registered endpoints.
C26_OneRowPerKeyInOrder ==
    SerializedAny =>
        /\ Len(Emitted.samples) = Len(KeysInOrder)
        /\ \A i \in 1..Len(Emitted.samples) :
               LET row == Emitted.samples[i]
                   key == KeysInOrder[i]
                   n == Len(key.labels)
               IN  /\ row.location_ids = profile.samples[i].key.locations
                   /\ [j \in 1..Len(row.location_ids) |->
                          EmittedLocation(row.location_ids[j])] = key.locations
                   /\ row.values = SumFor(key)
                   /\ Len(EmittedLabels(i)) \in {n, n + 1}
                   /\ SubSeq(EmittedLabels(i), 1, n) = key.labels
                   /\ Len(EmittedLabels(i)) = n + 1
                          => IsTraceEndpointLabel(EmittedLabels(i)[n + 1])
        /\ AcceptedAdds = <<>> => Emitted.samples = <<>>

\* two keys, the first added twice and the second once in between, no endpoint
\* registered: two rows in the order of the first adds, the first with the sum
C26_Witness ==
    /\ SerializedAny
    /\ Len(AcceptedAdds) = 3
    /\ KeyOf(AcceptedAdds[1].sample) = KeyOf(AcceptedAdds[3].sample)
    /\ KeyOf(AcceptedAdds[1].sample) # KeyOf(AcceptedAdds[2].sample)
    /\ AcceptedAdds[1].sample.locations # <<>>
    /\ Len(Emitted.samples) = 2
    /\ Emitted.samples[1].values # Emitted.samples[2].values
    /\ Emitted.samples[1].values[1]
           = AcceptedAdds[1].sample.values[1] + AcceptedAdds[3].sample.values[1]

-----------------------------------------------------------------------------
(* Strings that are not UTF-8 *)

\* every string of a sample passed through the C interface is valid UTF-8
AllUtf8(sample) ==
    /\ \A i \in 1..Len(sample.locations) :
           /\ sample.locations[i].mapping.filename.utf8
           /\ sample.locations[i].mapping.build_id.utf8
           /\ \A j \in 1..Len(sample.locations[i].lines) :
                  /\ sample.locations[i].lines[j].function.name.utf8
                  /\ sample.locations[i].lines[j].function.system_name.utf8
                  /\ sample.locations[i].lines[j].function.filename.utf8
    /\ \A i \in 1..Len(sample.labels) :
           /\ sample.labels[i].key.utf8
           /\ sample.labels[i].str.utf8
           /\ sample.labels[i].num_unit.utf8

\* the last call was a ddog_Profile_add with a string that is not UTF-8
RejectedForUtf8 == call.op = "ddog_Profile_add" /\ ~AllUtf8(call.sample)

\* C27: ddog_Profile_add with a sample in which a label, mapping or function
\* string is not valid UTF-8 returns 0 and leaves the profile as it was: no
\* string interned, no entity or sample inserted, Profile::add not called; the
\* add that follows is answered as if the rejected call had not been made: its
\* id is the position of its key among the keys of the accepted adds.
C27_InvalidUtf8AddRejected ==
    [][/\ RejectedForUtf8' =>
              /\ result'.id = 0
              /\ profile' = profile
              /\ history' = history
       /\ (RejectedForUtf8 /\ call'.op \in {"add", "ddog_Profile_add"}
              /\ history' # history) =>
              LET last == history'[Len(history')]
              IN  (Len(last.sample.values) = Len(profile.sample_types) /\ last.ok) =>
                      /\ last.id = Position(KeysInOrder', KeyOf(last.sample))
                      /\ Len(profile'.samples) = Len(KeysInOrder')]_vars

\* a sample whose function file name is not UTF-8, passed to a profile that
\* holds a sample already: answered with 0
C27_Witness ==
    /\ RejectedForUtf8
    /\ \E i \in 1..Len(call.sample.locations) :
           ~call.sample.locations[i].lines[1].function.filename.utf8
    /\ result.id = 0
    /\ profile.samples # <<>>
    /\ Len(history) = 1

-----------------------------------------------------------------------------
(* Label sides *)

\* a stored label with at most one active side: no string value, or no number
\* and no unit
OneSided(label) == label.str = 0 \/ (label.num = 0 /\ label.num_unit = 0)

\* C28 as stated: every label stored in a sample key and every label emitted
\* by a serialization has at most one active side, for every label add has
\* accepted.
C28_AsStated ==
    /\ \A i \in 1..Len(profile.samples) :
           \A j \in 1..Len(profile.samples[i].key.labels) :
               OneSided(profile.samples[i].key.labels[j])
    /\ SerializedAny =>
           \A i \in 1..Len(Emitted.samples) :
               \A j \in 1..Len(Emitted.samples[i].labels) :
                   OneSided(Emitted.samples[i].labels[j])

-----------------------------------------------------------------------------
(* Cached endpoint label keys *)

\* the last call registered an endpoint, through the Rust or the C interface
EndpointRegistered ==
    call.op \in {"add_endpoint", "ddprof_ffi_Profile_set_endpoint"}

\* the cached ids are the ids of the two label keys in the string table
CachedIdsResolve(p) ==
    /\ p.endpoints.local_root_span_id_label \in 1..(Len(p.strings) - 1)
    /\ p.endpoints.endpoint_label \in 1..(Len(p.strings) - 1)
    /\ Str(p.strings, p.endpoints.local_root_span_id_label) = "local root span id"
    /\ Str(p.strings, p.endpoints.endpoint_label) = "trace endpoint"

\* C29: the first add_endpoint on a profile, since it was created or reset,
\* interns "local root span id" and "trace endpoint" and caches their ids,
\* whether or not a sample matches; every later add_endpoint leaves the cached
\* ids as they are; and whenever an endpoint is registered the cached ids
\* resolve to those two strings in the current string table.
C29_EndpointLabelIdsCached ==
    [][/\ profile'.endpoints.mappings # <<>> => CachedIdsResolve(profile')
       /\ (EndpointRegistered' /\ profile.endpoints.mappings = <<>>) =>
              /\ profile'.endpoints.mappings # <<>>
              /\ CachedIdsResolve(profile')
       /\ (EndpointRegistered' /\ profile.endpoints.mappings # <<>>) =>
              /\ profile'.endpoints.local_root_span_id_label
                     = profile.endpoints.local_root_span_id_label
              /\ profile'.endpoints.endpoint_label
                     = profile.endpoints.endpoint_label]_vars

\* after a reset, two endpoints registered on the new profile, which holds no
\* sample
C29_Witness ==
    /\ EndpointRegistered
    /\ LastReset = 1
    /\ Len(EndpointCalls) = 2
    /\ profile.samples = <<>>
    /\ CachedIdsResolve(profile)

-----------------------------------------------------------------------------
(* Merging tracer payloads *)

\* the payloads of a collection that compare equal to p
Group(c, p) ==
    {i \in 1..Len(c.payloads) : cmp_send_data_payloads(c.payloads[i], p) = "Equal"}

\* how often a chunk occurs in a sequence of chunks
Occurrences(chunks, chunk) ==
    Cardinality({k \in 1..Len(chunks) : chunks[k] = chunk})

RECURSIVE OccurrencesIn(_, _, _, _)
\* how often a chunk occurs in the payloads of c with an index in group
OccurrencesIn(c, group, chunk, i) ==
    IF i > Len(c.payloads)
    THEN 0
    ELSE (IF i \in group THEN Occurrences(c.payloads[i].chunks, chunk) ELSE 0)
         + OccurrencesIn(c, group, chunk, i + 1)

\* the chunks that occur in a collection
ChunksOf(c) ==
    UNION {{c.payloads[i].chunks[k] : k \in 1..Len(c.payloads[i].chunks)} :
              i \in 1..Len(c.payloads)}

\* C30: merge on a V07 collection preserves size(), leaves exactly one payload
\* for every group of payloads that compare equal under
\* cmp_send_data_payloads, and that payload holds all the chunks of its group;
\* on a V04 collection merge changes nothing.
C30_MergeGroupsPayloads ==
    [][call'.op = "merge" =>
          IF collection.encoding = "V07"
          THEN /\ collection'.encoding = "V07"
               /\ TracerPayloadCollection_size(collection')
                      = TracerPayloadCollection_size(collection)
               /\ \A i \in 1..Len(collection'.payloads) :
                      /\ Group(collection', collection'.payloads[i]) = {i}
                      /\ Group(collection, collection'.payloads[i]) # {}
                      /\ \A chunk \in ChunksOf(collection) \cup ChunksOf(collection') :
                             Occurrences(collection'.payloads[i].chunks, chunk)
                                 = OccurrencesIn(collection,
                                       Group(collection, collection'.payloads[i]),
                                       chunk, 1)
               /\ \A i \in 1..Len(collection.payloads) :
                      Group(collection', collection.payloads[i]) # {}
          ELSE collection' = collection]_vars

\* payloads of two origins merged into two payloads, one of them holding the
\* chunks of three
C30_Witness ==
    /\ call.op = "merge"
    /\ collection.encoding = "V07"
    /\ Len(collection.payloads) = 2
    /\ \E i \in 1..2 : Len(collection.payloads[i].chunks) = 4
    /\ result.size = 5

\* the table an add call of the v2 storage works on
TableOf(s, op) ==
    CASE op = "add_function" -> s.functions
      [] op = "add_location" -> s.locations
      [] op = "add_mapping" -> s.mappings
      [] op = "ProfileSet::add" -> s.set

\* every stored entity carries 1 + its 0-based position as its id
IdsArePositions(s) ==
    \A table \in {s.functions, s.locations, s.mappings, s.set} :
        \A i \in 1..Len(table) : table[i].id = i

\* C31: in the v2 ProfileStorage and ProfileSet every stored entity carries
\* 1 + its insertion index as id; adding an entity equal, ignoring id, to a
\* stored one returns the stored entity's id and leaves the table as it was;
\* adding a new one appends it and returns the size of the table.
C31_StoredIdIsPosition ==
    [][/\ IdsArePositions(storage')
       /\ call'.op \in {"add_function", "add_location", "add_mapping", "ProfileSet::add"} =>
            \E before \in {TableOf(storage, call'.op)},
               after \in {TableOf(storage', call'.op)} :
                IF \E i \in 1..Len(before) : eq_ignoring_id(before[i], call'.value)
                THEN /\ after = before
                     /\ eq_ignoring_id(before[result'.id], call'.value)
                     /\ before[result'.id].id = result'.id
                ELSE /\ Len(after) = Len(before) + 1
                     /\ SubSeq(after, 1, Len(before)) = before
                     /\ eq_ignoring_id(after[Len(after)], call'.value)
                     /\ result'.id = Len(after)]_vars

\* a function equal to the first of two stored ones, passed with another id,
\* got the stored id 1
C31_Witness ==
    /\ storage # None
    /\ call.op = "add_function"
    /\ Len(storage.functions) = 2
    /\ eq_ignoring_id(storage.functions[1], call.value)
    /\ call.value.id = 9
    /\ result.id = 1
    /\ Len(storage.locations) = 2
    /\ Len(storage.set) = 1

\* the sum of the numbers of a sequence
RECURSIVE Total(_)
Total(seq) == IF seq = <<>> THEN 0 ELSE Head(seq) + Total(Tail(seq))

\* what add_sample(sample, breakdowns) has to do to builder b to give b2
AddSampleRule(b, b2, sample, breakdowns, ok) ==
    IF Len(breakdowns) # Len(b.sample_types)
    THEN ~ok /\ b2 = b
    ELSE /\ ok
         /\ b2 = [b EXCEPT !.samples = b2.samples]
         /\ IF \A i \in 1..Len(b.samples) : b.samples[i].key # sample
            THEN b2.samples = Append(b.samples, [key |-> sample, value |-> breakdowns])
            ELSE /\ Len(b2.samples) = Len(b.samples)
                 /\ \A i \in 1..Len(b.samples) :
                        /\ b2.samples[i].key = b.samples[i].key
                        /\ b.samples[i].key # sample => b2.samples[i] = b.samples[i]
                        /\ b.samples[i].key = sample =>
                            /\ Len(b2.samples[i].value) = Len(b.sample_types)
                            /\ \A k \in 1..Len(b.sample_types) :
                                /\ b2.samples[i].value[k].ticks =
                                       b.samples[i].value[k].ticks \o breakdowns[k].ticks
                                /\ b2.samples[i].value[k].values =
                                       b.samples[i].value[k].values \o breakdowns[k].values
                                /\ b2.samples[i].value[k].label_set_ids =
                                       b.samples[i].value[k].label_set_ids
                                           \o breakdowns[k].label_set_ids

\* the serialized samples of builder b carry, per sample type, the total of
\* the values collected for their key
SerializedSums(b, pprof) ==
    /\ Len(pprof.samples) = Len(b.samples)
    /\ \A i \in 1..Len(b.samples) :
        /\ pprof.samples[i].location_ids = b.samples[i].key.location_ids
        /\ Len(pprof.samples[i].values) = Len(b.sample_types)
        /\ \A k \in 1..Len(b.sample_types) :
               pprof.samples[i].values[k] = Total(b.samples[i].value[k].values)

\* C32: v2 add_sample with a number of breakdowns other than the number of
\* sample types is an error and changes nothing; otherwise a new key is
\* inserted with its breakdowns and a repeated key gets the new ticks, values
\* and label-set ids appended position by position, so that the serialized
\* value of each sample type is the sum of the values added for the key.
C32_AddSampleAggregates ==
    [][/\ call'.op = "add_sample" =>
            AddSampleRule(profile_builder, profile_builder', call'.sample,
                          call'.breakdowns, result'.ok)
       /\ (call'.op = "serialize" /\ ~result'.panic) =>
            SerializedSums(profile_builder, result'.encoded[1].buffer)]_vars

\* a key added three times to a builder with two sample types was serialized
\* with the two sums
C32_Witness ==
    /\ call.op = "serialize"
    /\ profile_builder = None
    /\ ~result.panic
    /\ \E i \in 1..Len(result.encoded[1].buffer.samples) :
        /\ result.encoded[1].buffer.samples[i].values = <<4, 7>>
        /\ Len(result.encoded[1].buffer.samples[i].breakdowns[1].values) = 3

\* C33: v2 serialize tolerates any end time: without a duration argument and
\* with a stored duration of zero it returns an EncodedProfile whose end is
\* the later of start and end time and whose duration is measured from start
\* to that end, zero when the end time is before the start.
C33_AsStated ==
    [][(call'.op = "serialize" /\ call'.duration = None
            /\ profile_builder.duration = 0) =>
          /\ ~result'.panic
          /\ result'.encoded # None
          /\ result'.encoded[1].start = profile_builder.start_time
          /\ result'.encoded[1].end =
                 IF call'.end_time < profile_builder.start_time
                 THEN profile_builder.start_time ELSE call'.end_time
          /\ result'.encoded[1].buffer.duration_nanos =
                 Min(result'.encoded[1].end - result'.encoded[1].start, I64_MAX)]_vars

\* thread t is blocked in a lock() call
BlockedOnLock(t) ==
    \/ /\ interning.threads[t].pc = "lock strings"
       /\ interning.string_table.guard # None
    \/ /\ interning.threads[t].pc = "lock storage"
       /\ interning.storage.guard # None

\* C34: with threads interning through one shared LockedStringTable in any
\* interleaving, every id handed out names its string in the table for good,
\* so equal strings have one id for all callers and distinct strings distinct
\* ids; id 0 is the empty string; the holder of the string-table guard never
\* waits for a lock, and whenever a thread is blocked in lock() some thread
\* can take a step.
C34_SharedInterning ==
    /\ interning.string_table.set[1] = ""
    /\ \A i, j \in 1..Len(interning.string_table.set) :
           interning.string_table.set[i] = interning.string_table.set[j] => i = j
    /\ \A h \in interning.handed :
           /\ h.id + 1 \in 1..Len(interning.string_table.set)
           /\ interning.string_table.set[h.id + 1] = h.string
    /\ \A g, h \in interning.handed : (g.string = h.string) <=> (g.id = h.id)
    /\ \A t \in Threads :
           interning.threads[t].strings # None =>
               SubSeq(interning.string_table.set, 1,
                      Len(interning.threads[t].strings[1]))
                   = interning.threads[t].strings[1]
    /\ \A t \in Threads :
           interning.string_table.guard = Some(t) =>
               /\ interning.threads[t].pc = "locked"
               /\ ~BlockedOnLock(t)
    /\ (\E t \in Threads : BlockedOnLock(t)) => ENABLED InternNext

\* two threads got the same id for "trace endpoint", one of them through
\* ProfileBuilder::new, while the other waits for the guard the first holds
\* with the storage guard in hand
C34_Witness ==
    /\ interning # None
    /\ \E g, h \in interning.handed :
        /\ g.thread # h.thread
        /\ g.string = "trace endpoint"
        /\ h.string = "trace endpoint"
        /\ g.id = h.id
    /\ \E t, u \in Threads :
        /\ interning.string_table.guard = Some(t)
        /\ interning.threads[t].op = "ProfileBuilder::new"
        /\ interning.threads[u].pc = "lock strings"
        /\ interning.storage.guard = Some(u)

\* C35: for a profile made by the builder and driven by any sequence of add,
\* add_endpoint, serialize and reset, every reset succeeds: Profile::reset
\* returns the previous profile and ddog_Profile_reset returns true.
C35_ResetAlwaysSucceeds ==
    /\ call.op = "reset" => (result.ok /\ result.previous # None)
    /\ call.op = "ddog_Profile_reset" => result.ok
    /\ \A i \in 1..Len(history) :
           history[i].op = "reset" => (history[i].ok /\ history[i].previous # None)

\* ddog_Profile_reset returned true on a profile that had been reset before
\* and had taken a sample since
C35_Witness ==
    /\ call.op = "ddog_Profile_reset"
    /\ result.ok
    /\ Len(history) = 3
    /\ history[1].op = "reset"
    /\ history[2].op = "add"
    /\ history[2].ok
    /\ history[3].previous[1].samples # <<>>

\* C36: for the FFI Vec, after any sequence of from(vec) and push, is_empty()
\* is true exactly when len() is 0, len() is the number of elements held,
\* get(i) is None exactly when i >= len(), and last() is None exactly when
\* len() is 0.
C36_AsStated ==
    /\ Vec_is_empty(vec) <=> (Vec_len(vec) = 0)
    /\ Vec_len(vec) = Len(vec.buffer)
    /\ \A i \in 0..(MaxLen + 1) : (Vec_get(vec, i) = None) <=> (i >= Vec_len(vec))
    /\ (Vec_last(vec) = None) <=> (Vec_len(vec) = 0)

\* the payloads passed to flush_traces so far, in order
RECURSIVE FlushedPayloads(_)
FlushedPayloads(batches) ==
    IF batches = <<>> THEN <<>> ELSE Head(batches) \o FlushedPayloads(Tail(batches))

\* the payloads taken from the channel that no flush_traces call has seen:
\* the one the receiving task holds and those in the buffer
Unflushed ==
    (IF flusher.producer.tracer_payload = None
     THEN <<>> ELSE <<flusher.producer.tracer_payload[1]>>)
        \o (IF flusher.consumer.pc \in {"flush", "clear"} THEN <<>> ELSE flusher.buffer)

IsFlushed(payload) ==
    \E i \in 1..Len(FlushedPayloads(flusher.flushed)) :
        FlushedPayloads(flusher.flushed)[i] = payload

\* no payload twice, and every received payload flushed or still waiting
ExactlyOnce ==
    /\ \A i, j \in 1..Len(FlushedPayloads(flusher.flushed)) :
           FlushedPayloads(flusher.flushed)[i] = FlushedPayloads(flusher.flushed)[j]
               => i = j
    /\ Len(flusher.received) = Len(FlushedPayloads(flusher.flushed)) + Len(Unflushed)
    /\ \A i \in 1..Len(flusher.received) :
           \/ IsFlushed(flusher.received[i])
           \/ \E j \in 1..Len(Unflushed) : Unflushed[j] = flusher.received[i]
    /\ \A i \in 1..Len(flusher.flushed) : flusher.flushed[i] # <<>>
    /\ flusher.failed \subseteq {p \in 1..MaxTraces : IsFlushed(p)}

\* C37: in start_trace_flusher, under any interleaving of the receiving task
\* and the flush loop, every payload received from the channel is passed to
\* flush_traces exactly once, an empty buffer causes no flush, a payload
\* whose send failed is not passed again, and under fair scheduling every
\* received payload is eventually flushed.
C37_FlushedExactlyOnce ==
    /\ []ExactlyOnce
    /\ \A payload \in 1..MaxTraces :
           (\E i \in 1..Len(flusher.received) : flusher.received[i] = payload)
               ~> IsFlushed(payload)

\* the second flush is over and one of its sends failed, while the receiving
\* task holds a third payload and waits for the lock the loop still has
C37_Witness ==
    /\ flusher # None
    /\ flusher.consumer.pc = "clear"
    /\ Len(flusher.flushed) = 2
    /\ flusher.failed # {}
    /\ flusher.producer.pc = "lock"
    /\ flusher.producer.tracer_payload = Some(3)
    /\ flusher.guard = Some("consumer")

\* the counter is the number of connections being served, the telemetry task
\* is past its shutdown receiver only with every sender dropped, and
\* main_loop is past the telemetry task only with every handler finished
CounterAndShutdownOrder ==
    /\ sidecar.counter = Cardinality(sidecar.serving)
    /\ sidecar.counter >= 0
    /\ sidecar.senders.clones = sidecar.serving
    /\ sidecar.telemetry \in {"stopping", "done"} =>
           (~sidecar.senders.main /\ sidecar.senders.clones = {})
    /\ sidecar.main \in {"join trace flusher", "returned"} =>
           /\ sidecar.listener = "shutdown"
           /\ sidecar.serving = {}
           /\ sidecar.telemetry = "done"

\* C38: in the sidecar main_loop the active-connection counter always equals
\* the number of accepted connections whose handler has not finished and is
\* never negative; after the listener is cancelled main_loop returns only
\* once every handler has finished, because the shutdown receiver of the
\* self-telemetry task completes only when the main sender and every
\* connection's clone are dropped; once they are, under fair scheduling the
\* receiver completes and main_loop returns.
C38_GracefulShutdown ==
    /\ []CounterAndShutdownOrder
    /\ (sidecar.listener = "shutdown" /\ sidecar.serving = {})
           ~> (sidecar.main = "returned")

\* the listener is cancelled and main_loop waits for the telemetry task,
\* which is in its metrics loop, while one of three connections is still
\* being served
C38_Witness ==
    /\ sidecar # None
    /\ sidecar.main = "await telemetry"
    /\ sidecar.listener = "shutdown"
    /\ sidecar.accepted = 3
    /\ sidecar.counter = 1
    /\ sidecar.telemetry = "loop"
    /\ ~sidecar.senders.main
    /\ sidecar.senders.clones = sidecar.serving

\* C39: the request ids new_client_message issues are pairwise distinct
\* across the clones that share the counter, in any interleaving; call()
\* returns as its response (as success or as the mapped error) only the one
\* whose request_id is the id of the request it sent, having dropped every
\* response with another id that it read before; send() marks its request
\* with discard_response, returns after the write and reads no response.
C39_CallTakesItsOwnResponse ==
    /\ ~transport.reissued
    /\ \A c \in Clones :
        \E t \in {transport.clones[c]} :
            /\ \A k \in 1..Len(t.discarded) : t.discarded[k] # t.request_id
            /\ t.response # None =>
                /\ t.op = "call"
                /\ t.response[1].request_id = t.request_id
                /\ t.returned = Some(map_err(t.response[1].message))
            /\ (t.returned # None /\ t.returned[1].ok /\ t.op = "call") =>
                   t.response # None
            /\ t.op = "send" =>
                /\ t.response = None
                /\ t.discarded = <<>>
                /\ t.pc \in {"do_send", "idle"}
                /\ t.req[1].context.discard_response
            /\ t.op = "call" => ~t.req[1].context.discard_response

\* a call dropped the response to the other clone's request and then
\* returned its own, a mapped error
C39_Witness ==
    /\ transport # None
    /\ \E c \in Clones :
        /\ transport.clones[c].op = "call"
        /\ transport.clones[c].pc = "idle"
        /\ Len(transport.clones[c].discarded) = 1
        /\ transport.clones[c].response # None
        /\ ~transport.clones[c].returned[1].ok
        /\ transport.clones[c].request_id = 0
        /\ \E d \in Clones \ {c} : transport.clones[d].pc = "read_item"

====
